---------------------------- MODULE Spec2Model ----------------------------
(***************************************************************************)
(* A model of the semiont-agents demo harness.                             *)
(*                                                                         *)
(*   - the text chunkers of src/src/chunking.ts (chunkText, chunkBySize,   *)
(*     findParagraphBreaks, findBestBreakPoint);                           *)
(*   - the upload helpers of src/src/resources.ts (uploadChunks,           *)
(*     uploadDocuments);                                                   *)
(*   - the commands of src/demo.ts (download, load, annotate, validate),   *)
(*     with the state file they share and the helpers they call;           *)
(*   - the TerminalApp of interactive mode, which runs the commands.       *)
(*                                                                         *)
(* Texts are sequences of one-character strings; offsets are 0-based as in *)
(* the TypeScript source, so the character at offset k is text[k + 1].     *)
(***************************************************************************)
EXTENDS Integers, Sequences, FiniteSets, TLC

VARIABLES
    fn,               \* which chunker runs: "chunkText" or "chunkBySize"
    text,             \* the input text
    targetChunkSize,  \* targetChunkSize of chunkText, chunkSize of chunkBySize
    titlePrefix,      \* the title prefix
    breakPoints,      \* chunkText: the result of findParagraphBreaks(text)
    startPos,         \* chunkText: loop variable startPos
    i,                \* chunkBySize: loop variable i
    partNumber,       \* the next part number
    chunks,           \* the chunk list built so far (returned when pc = "done")
    cuts,             \* history: one record per chunkText iteration
    pc,               \* "loop" while the chunker's loop runs, "done" once it returned
    upFn,             \* which helper runs: "uploadChunks" or "uploadDocuments"
    items,            \* the helper's input list (chunks or documents)
    upI,              \* the helper's loop variable i
    ids,              \* result field ids
    uploaded,         \* result field uploaded
    failed,           \* result field failed
    calls,            \* history: the createResource calls issued, with their outcomes
    upPc,             \* "idle", "loop", "done" (returned) or "thrown"
    proc,             \* per process: the locals of the command function it runs
    stateFile,        \* the .state.json of the dataset directory
    cacheFiles,       \* the names of the datasets whose cache file exists
    lastSaved,        \* history: the argument of the last saveState that returned
    ui                \* the fields of the TerminalApp of interactive mode

chunkVars == <<fn, text, targetChunkSize, titlePrefix, breakPoints, startPos, i,
               partNumber, chunks, cuts, pc>>
uploadVars == <<upFn, items, upI, ids, uploaded, failed, calls, upPc>>
runVars == <<proc, stateFile, cacheFiles, lastSaved>>
uiVars == <<ui>>
vars == <<fn, text, targetChunkSize, titlePrefix, breakPoints, startPos, i,
          partNumber, chunks, cuts, pc,
          upFn, items, upI, ids, uploaded, failed, calls, upPc,
          proc, stateFile, cacheFiles, lastSaved, ui>>

---------------------------------------------------------------------------
(* Bounds of the model. *)

\* longest text of the exhaustive family (every string over Chars)
MaxLen == 4
\* largest number of paragraphs of a text of the paragraph family
MaxParas == 3
\* largest target size of the small range of target sizes
MaxTarget == 6
\* iterations of chunkBySize explored when its chunk size is below 1
MaxDiverge == 3
\* longest input list of an upload helper
MaxItems == 3

---------------------------------------------------------------------------
(* Characters and strings. *)

Min(a, b) == IF a <= b THEN a ELSE b
Max(a, b) == IF a >= b THEN a ELSE b

\* the characters that /\s/ and String.prototype.trim treat as whitespace
Whitespace == {" ", "\n", "\r"}
Chars == {"a", "b", " ", "\n", "\r"}

IsWs(c) == c \in Whitespace

\* a variant of Substring that leaves out the last character of the range
Substring_ShortByOne(s, a, b) ==
    LET ca == Max(0, Min(a, Len(s)))
        cb == Max(0, Min(b, Len(s)))
    IN  SubSeq(s, Min(ca, cb) + 1, Max(ca, cb) - 1)

\* String.prototype.substring(a, b): clamps to [0, length], swaps when a > b
Substring(s, a, b) ==
    LET ca == Max(0, Min(a, Len(s)))
        cb == Max(0, Min(b, Len(s)))
    IN  SubSeq(s, Min(ca, cb) + 1, Max(ca, cb))

\* String.prototype.slice(a, b): negative offsets count from the end, no swap
SliceIndex(s, k) == IF k < 0 THEN Max(Len(s) + k, 0) ELSE Min(k, Len(s))
Slice(s, a, b) == SubSeq(s, SliceIndex(s, a) + 1, SliceIndex(s, b))

RECURSIVE TrimStart(_)
TrimStart(s) ==
    IF s # <<>> /\ IsWs(Head(s)) THEN TrimStart(Tail(s)) ELSE s

RECURSIVE TrimEnd(_)
TrimEnd(s) ==
    IF s # <<>> /\ IsWs(s[Len(s)]) THEN TrimEnd(SubSeq(s, 1, Len(s) - 1)) ELSE s

\* a variant of Trim that strips leading whitespace only
Trim_StartOnly(s) == TrimStart(s)

\* String.prototype.trim
Trim(s) == TrimEnd(TrimStart(s))

DigitChar(d) == <<"0", "1", "2", "3", "4", "5", "6", "7", "8", "9">>[d + 1]

\* the decimal digits of a number n >= 0, as a template literal prints it
RECURSIVE NumberToString(_)
NumberToString(n) ==
    IF n < 10 THEN <<DigitChar(n)>>
    ELSE NumberToString(n \div 10) \o <<DigitChar(n % 10)>>

\* `${titlePrefix} ${partNumber}`
ChunkTitle(prefix, n) == prefix \o <<" ">> \o NumberToString(n)

---------------------------------------------------------------------------
(* findParagraphBreaks: the matches of /(\r?\n){2,}/g, left to right. *)

\* length of one \r?\n at offset k of s, 0 when there is none
UnitLen(s, k) ==
    IF k + 1 <= Len(s) /\ s[k + 1] = "\n" THEN 1
    ELSE IF k + 2 <= Len(s) /\ s[k + 1] = "\r" /\ s[k + 2] = "\n" THEN 2
    ELSE 0

\* greedy repetition of \r?\n from offset k: where it stops and how many it took
RECURSIVE GreedyRun(_, _, _)
GreedyRun(s, k, n) ==
    IF UnitLen(s, k) = 0 THEN [end |-> k, count |-> n]
    ELSE GreedyRun(s, k + UnitLen(s, k), n + 1)

\* a variant of MatchEnds for the pattern /(\r?\n)+/g: one newline is a break
RECURSIVE MatchEnds_SingleNewline(_, _)
MatchEnds_SingleNewline(s, k) ==
    IF k >= Len(s) THEN <<>>
    ELSE LET run == GreedyRun(s, k, 0)
         IN  IF run.count >= 1 THEN <<run.end>> \o MatchEnds_SingleNewline(s, run.end)
             ELSE MatchEnds_SingleNewline(s, k + 1)

\* the exec loop: match.index + match[0].length of every match from offset k on
RECURSIVE MatchEnds(_, _)
MatchEnds(s, k) ==
    IF k >= Len(s) THEN <<>>
    ELSE LET run == GreedyRun(s, k, 0)
         IN  IF run.count >= 2 THEN <<run.end>> \o MatchEnds(s, run.end)
             ELSE MatchEnds(s, k + 1)

findParagraphBreaks(s) == <<0>> \o MatchEnds(s, 0) \o <<Len(s)>>

---------------------------------------------------------------------------
(* findBestBreakPoint: the for loop over breakPoints with its latched flag. *)

\* a variant of BestBreakScan that stops at the first break within the target
RECURSIVE BestBreakScan_FirstWithin(_, _, _, _, _, _)
BestBreakScan_FirstWithin(bps, k, sPos, targetEnd, bestBreak, found) ==
    IF k > Len(bps) THEN bestBreak
    ELSE IF bps[k] <= sPos THEN
        BestBreakScan_FirstWithin(bps, k + 1, sPos, targetEnd, bestBreak, found)
    ELSE bps[k]

\* a variant of BestBreakScan without the latched flag: the first break after
\* the target wins even when a break within the target was found
RECURSIVE BestBreakScan_NoLatch(_, _, _, _, _, _)
BestBreakScan_NoLatch(bps, k, sPos, targetEnd, bestBreak, found) ==
    IF k > Len(bps) THEN bestBreak
    ELSE IF bps[k] <= sPos THEN
        BestBreakScan_NoLatch(bps, k + 1, sPos, targetEnd, bestBreak, found)
    ELSE IF bps[k] <= targetEnd THEN
        BestBreakScan_NoLatch(bps, k + 1, sPos, targetEnd, bps[k], TRUE)
    ELSE bps[k]

RECURSIVE BestBreakScan(_, _, _, _, _, _)
BestBreakScan(bps, k, sPos, targetEnd, bestBreak, found) ==
    IF k > Len(bps) THEN bestBreak
    ELSE IF bps[k] <= sPos THEN
        BestBreakScan(bps, k + 1, sPos, targetEnd, bestBreak, found)
    ELSE IF bps[k] <= targetEnd THEN
        BestBreakScan(bps, k + 1, sPos, targetEnd, bps[k], TRUE)
    ELSE IF ~found THEN bps[k]
    ELSE bestBreak

\* a variant of findBestBreakPoint that cuts at the target offset when no
\* break lies within the target
findBestBreakPoint_HardCut(bps, sPos, targetEnd) ==
    LET best == BestBreakScan(bps, 1, sPos, targetEnd, bps[Len(bps)], FALSE)
    IN  IF best > targetEnd /\ targetEnd > sPos THEN targetEnd ELSE best

\* a variant of findBestBreakPoint that cuts at the target offset whenever the
\* break chosen lies beyond it
findBestBreakPoint_CutAtTarget(bps, sPos, targetEnd) ==
    LET best == BestBreakScan(bps, 1, sPos, targetEnd, bps[Len(bps)], FALSE)
    IN  IF best > targetEnd THEN targetEnd ELSE best

\* a variant of findBestBreakPoint that keeps its default, the end of the
\* text, when no break lies within the target
findBestBreakPoint_EndWhenNoneWithin(bps, sPos, targetEnd) ==
    LET best == BestBreakScan(bps, 1, sPos, targetEnd, bps[Len(bps)], FALSE)
    IN  IF best > targetEnd THEN bps[Len(bps)] ELSE best

findBestBreakPoint(bps, sPos, targetEnd) ==
    BestBreakScan(bps, 1, sPos, targetEnd, bps[Len(bps)], FALSE)

---------------------------------------------------------------------------
(* One iteration of the while loop of chunkText. *)

\* while (startPos < text.length)
ChunkTextLoopCond(s, sPos) == sPos < Len(s)

\* a variant of ChunkBySizeLoopCond that runs the body once more
ChunkBySizeLoopCond_Inclusive(s, k) == k <= Len(s)

\* for (...; i < text.length; ...)
ChunkBySizeLoopCond(s, k) == k < Len(s)

\* while (startPos < bestBreak && /\s/.test(text[startPos])) startPos++
RECURSIVE SkipWhitespace(_, _, _)
SkipWhitespace(s, sPos, bestBreak) ==
    IF sPos < bestBreak /\ IsWs(s[sPos + 1])
    THEN SkipWhitespace(s, sPos + 1, bestBreak)
    ELSE sPos

\* a variant of ChunkTextIteration that counts a dropped slice as a part
ChunkTextIteration_CountDropped(s, bps, target, prefix, sPos, part, list) ==
    LET targetEnd == sPos + target
        bestBreak == findBestBreakPoint(bps, sPos, targetEnd)
        skipped   == SkipWhitespace(s, sPos, bestBreak)
        content   == Trim(Substring(s, skipped, bestBreak))
        emit      == content # <<>>
    IN  [ startPos   |-> bestBreak,
          partNumber |-> part + 1,
          chunks     |-> IF emit
                         THEN Append(list, [ partNumber |-> part,
                                             content    |-> content,
                                             title      |-> ChunkTitle(prefix, part) ])
                         ELSE list,
          cut        |-> [ startPos |-> sPos, targetEnd |-> targetEnd,
                           bestBreak |-> bestBreak, skipped |-> skipped,
                           emitted |-> emit ] ]

ChunkTextIteration(s, bps, target, prefix, sPos, part, list) ==
    LET targetEnd == sPos + target
        bestBreak == findBestBreakPoint(bps, sPos, targetEnd)
        skipped   == SkipWhitespace(s, sPos, bestBreak)
        content   == Trim(Substring(s, skipped, bestBreak))
        emit      == content # <<>>
    IN  [ startPos   |-> bestBreak,
          partNumber |-> IF emit THEN part + 1 ELSE part,
          chunks     |-> IF emit
                         THEN Append(list, [ partNumber |-> part,
                                             content    |-> content,
                                             title      |-> ChunkTitle(prefix, part) ])
                         ELSE list,
          cut        |-> [ startPos |-> sPos, targetEnd |-> targetEnd,
                           bestBreak |-> bestBreak, skipped |-> skipped,
                           emitted |-> emit ] ]

\* a variant of ChunkBySizeIteration that trims the slice as chunkText does
ChunkBySizeIteration_Trimmed(s, size, prefix, k, part, list) ==
    [ i          |-> k + size,
      partNumber |-> part + 1,
      chunks     |-> Append(list, [ partNumber |-> part,
                                    title      |-> ChunkTitle(prefix, part),
                                    content    |-> Trim(Slice(s, k, k + size)) ]) ]

(* One iteration of the for loop of chunkBySize. *)
ChunkBySizeIteration(s, size, prefix, k, part, list) ==
    [ i          |-> k + size,
      partNumber |-> part + 1,
      chunks     |-> Append(list, [ partNumber |-> part,
                                    title      |-> ChunkTitle(prefix, part),
                                    content    |-> Slice(s, k, k + size) ]) ]

---------------------------------------------------------------------------
(* The inputs explored. *)

RECURSIVE Strings(_)
Strings(n) ==
    IF n = 0 THEN {<<>>}
    ELSE LET shorter == Strings(n - 1)
         IN  shorter \cup { Append(s, c) : s \in { t \in shorter : Len(t) = n - 1 }, c \in Chars }

Paragraphs == { <<"a">>, <<"b", "\n", "a">> }
Separators == { <<"\n", "\n">>, <<"\r", "\n", "\r", "\n">>, <<" ", "\n", "\n", "\n", " ">> }

RECURSIVE ParagraphTexts(_)
ParagraphTexts(n) ==
    IF n = 1 THEN Paragraphs
    ELSE LET fewer == ParagraphTexts(n - 1)
         IN  fewer \cup { t \o sep \o p : t \in fewer, sep \in Separators, p \in Paragraphs }

\* "AAAA\n\nBBBB\n\nCCCC"
ExampleText ==
    <<"A", "A", "A", "A", "\n", "\n", "B", "B", "B", "B", "\n", "\n", "C", "C", "C", "C">>

\* a text of 100 characters with a paragraph break every ten characters
HundredText ==
    [ k \in 1..100 |-> IF k % 10 \in {0, 9} THEN "\n"
                       ELSE IF k % 10 = 5 THEN " "
                       ELSE IF k % 2 = 1 THEN "a" ELSE "b" ]

Texts == Strings(MaxLen) \cup ParagraphTexts(MaxParas) \cup {ExampleText, HundredText}
Targets == {-1} \cup (0..MaxTarget) \cup {30}
Prefixes == { <<"P">>, <<"T", "o", "C">> }

---------------------------------------------------------------------------
(* The chunkers as a state machine. *)

ChunkInit ==
    /\ fn \in {"chunkText", "chunkBySize"}
    /\ text \in Texts
    /\ targetChunkSize \in Targets
    /\ titlePrefix \in Prefixes
    /\ breakPoints = IF fn = "chunkText" THEN findParagraphBreaks(text) ELSE <<>>
    /\ startPos = 0
    /\ i = 0
    /\ partNumber = 1
    /\ chunks = <<>>
    /\ cuts = <<>>
    /\ pc = "loop"

\* chunkText: one pass through the body of while (startPos < text.length)
ChunkTextStep ==
    /\ pc = "loop"
    /\ fn = "chunkText"
    /\ ChunkTextLoopCond(text, startPos)
    /\ LET r == ChunkTextIteration(text, breakPoints, targetChunkSize, titlePrefix,
                                   startPos, partNumber, chunks)
       IN  /\ startPos' = r.startPos
           /\ partNumber' = r.partNumber
           /\ chunks' = r.chunks
           /\ cuts' = Append(cuts, r.cut)
    /\ UNCHANGED <<fn, text, targetChunkSize, titlePrefix, breakPoints, i, pc>>

\* chunkText: the loop condition fails, return chunks
ChunkTextReturn ==
    /\ pc = "loop"
    /\ fn = "chunkText"
    /\ ~ChunkTextLoopCond(text, startPos)
    /\ pc' = "done"
    /\ UNCHANGED <<fn, text, targetChunkSize, titlePrefix, breakPoints, startPos, i,
                   partNumber, chunks, cuts>>

\* chunkBySize: one pass through the body of for (i = 0; i < text.length; i += chunkSize).
\* With chunkSize < 1 the loop never ends; MaxDiverge bounds how far it is followed.
ChunkBySizeStep ==
    /\ pc = "loop"
    /\ fn = "chunkBySize"
    /\ ChunkBySizeLoopCond(text, i)
    /\ targetChunkSize >= 1 \/ Len(chunks) < MaxDiverge
    /\ LET r == ChunkBySizeIteration(text, targetChunkSize, titlePrefix, i,
                                     partNumber, chunks)
       IN  /\ i' = r.i
           /\ partNumber' = r.partNumber
           /\ chunks' = r.chunks
    /\ UNCHANGED <<fn, text, targetChunkSize, titlePrefix, breakPoints, startPos,
                   cuts, pc>>

\* chunkBySize: the loop condition fails, return chunks
ChunkBySizeReturn ==
    /\ pc = "loop"
    /\ fn = "chunkBySize"
    /\ ~ChunkBySizeLoopCond(text, i)
    /\ pc' = "done"
    /\ UNCHANGED <<fn, text, targetChunkSize, titlePrefix, breakPoints, startPos, i,
                   partNumber, chunks, cuts>>

\* a chunker is called: its parameters and the initial values of its locals
ChunkCall ==
    /\ pc = "idle"
    /\ fn' \in {"chunkText", "chunkBySize"}
    /\ text' \in Texts
    /\ targetChunkSize' \in Targets
    /\ titlePrefix' \in Prefixes
    /\ breakPoints' = IF fn' = "chunkText" THEN findParagraphBreaks(text') ELSE <<>>
    /\ pc' = "loop"
    /\ UNCHANGED <<startPos, i, partNumber, chunks, cuts>>

ChunkIdle ==
    /\ fn = "none"
    /\ text = <<>>
    /\ targetChunkSize = 0
    /\ titlePrefix = <<>>
    /\ breakPoints = <<>>
    /\ startPos = 0
    /\ i = 0
    /\ partNumber = 1
    /\ chunks = <<>>
    /\ cuts = <<>>
    /\ pc = "idle"

---------------------------------------------------------------------------
(* The upload helpers uploadChunks and uploadDocuments. *)

\* the request a helper builds for one item
UploadRequest(helper, item) ==
    [ name        |-> item.title,
      file        |-> item.content,
      format      |-> IF helper = "uploadChunks" THEN "text/plain"
                      ELSE IF item.format # "" THEN item.format
                      ELSE "text/plain",
      entityTypes |-> <<>> ]

\* what client.createResource does with a request: it resolves with a resource
\* that carries an id, or it rejects with an error
ResourceIds == {"r1", "r2"}
ErrorMessages == {"HTTP 500"}
Outcomes == [ kind : {"ok"}, id : ResourceIds ]
                \cup [ kind : {"throw"}, message : ErrorMessages ]

\* a variant of UploadIteration without the catch block: the rejection leaves
\* the helper
UploadIteration_NoCatch(helper, list, k, idList, upList, failList, outcome) ==
    LET item == list[k + 1]
        call == [ index |-> k, request |-> UploadRequest(helper, item),
                  outcome |-> outcome ]
    IN  IF outcome.kind = "ok"
        THEN [ ids |-> Append(idList, outcome.id), uploaded |-> Append(upList, item),
               failed |-> failList, call |-> call, pc |-> "loop" ]
        ELSE [ ids |-> idList, uploaded |-> upList,
               failed |-> failList, call |-> call, pc |-> "thrown" ]

\* a variant of UploadIteration whose catch block also pushes the item onto
\* uploaded
UploadIteration_KeepsFailedItem(helper, list, k, idList, upList, failList, outcome) ==
    LET item == list[k + 1]
        call == [ index |-> k, request |-> UploadRequest(helper, item),
                  outcome |-> outcome ]
    IN  IF outcome.kind = "ok"
        THEN [ ids |-> Append(idList, outcome.id), uploaded |-> Append(upList, item),
               failed |-> failList, call |-> call, pc |-> "loop" ]
        ELSE [ ids |-> idList, uploaded |-> Append(upList, item),
               failed |-> Append(failList, [ title |-> item.title,
                                             error |-> outcome.message ]),
               call |-> call, pc |-> "loop" ]

\* one pass through the body of for (let i = 0; i < list.length; i++): the try
\* block issues createResource and pushes the id and the item, the catch block
\* pushes the failure
UploadIteration(helper, list, k, idList, upList, failList, outcome) ==
    LET item == list[k + 1]
        call == [ index |-> k, request |-> UploadRequest(helper, item),
                  outcome |-> outcome ]
    IN  IF outcome.kind = "ok"
        THEN [ ids |-> Append(idList, outcome.id), uploaded |-> Append(upList, item),
               failed |-> failList, call |-> call, pc |-> "loop" ]
        ELSE [ ids |-> idList, uploaded |-> upList,
               failed |-> Append(failList, [ title |-> item.title,
                                             error |-> outcome.message ]),
               call |-> call, pc |-> "loop" ]

\* the inputs explored: chunks for uploadChunks, documents for uploadDocuments
ChunkPool ==
    { [ partNumber |-> 1, content |-> "x", title |-> "P 1" ],
      [ partNumber |-> 2, content |-> "y", title |-> "P 2" ] }
DocumentPool ==
    { [ title |-> "A", content |-> "x", format |-> "" ],
      [ title |-> "B", content |-> "y", format |-> "text/markdown" ] }

RECURSIVE Lists(_, _)
Lists(pool, n) ==
    IF n = 0 THEN {<<>>}
    ELSE LET shorter == Lists(pool, n - 1)
         IN  shorter \cup { Append(l, x) : l \in { t \in shorter : Len(t) = n - 1 }, x \in pool }

UploadInit ==
    /\ upFn \in {"uploadChunks", "uploadDocuments"}
    /\ items \in Lists(IF upFn = "uploadChunks" THEN ChunkPool ELSE DocumentPool, MaxItems)
    /\ upI = 0
    /\ ids = <<>>
    /\ uploaded = <<>>
    /\ failed = <<>>
    /\ calls = <<>>
    /\ upPc = "loop"

\* one iteration of the helper's loop, for either outcome of createResource
UploadStep ==
    /\ upPc = "loop"
    /\ upI < Len(items)
    /\ \E outcome \in Outcomes :
          LET r == UploadIteration(upFn, items, upI, ids, uploaded, failed, outcome)
          IN  /\ ids' = r.ids
              /\ uploaded' = r.uploaded
              /\ failed' = r.failed
              /\ calls' = Append(calls, r.call)
              /\ upPc' = r.pc
              /\ upI' = IF r.pc = "loop" THEN upI + 1 ELSE upI
    /\ UNCHANGED <<upFn, items>>

\* the loop condition fails: printUploadSummary, return { ids, uploaded, failed }
UploadReturn ==
    /\ upPc = "loop"
    /\ ~(upI < Len(items))
    /\ upPc' = "done"
    /\ UNCHANGED <<upFn, items, upI, ids, uploaded, failed, calls>>

UploadIdle ==
    /\ upFn = "none"
    /\ items = <<>>
    /\ upI = 0
    /\ ids = <<>>
    /\ uploaded = <<>>
    /\ failed = <<>>
    /\ calls = <<>>
    /\ upPc = "idle"

---------------------------------------------------------------------------
(* The commands of demo.ts.  A run of a command is one operating-system    *)
(* process; proc[p] holds the locals of the command function that process  *)
(* p runs.  The model follows one dataset directory: stateFile is its      *)
(* .state.json, and the config.ts found there when a run starts is one of  *)
(* Datasets.  Identifiers handed out by the backend are written as the     *)
(* list of their pieces, e.g. <<"http://x", "/resources/", "1">>.          *)

Procs == {1, 2}

\* an optional value: <<>> stands for undefined, <<x>> for the value x
None == <<>>
Some(x) == <<x>>
IsSome(o) == o # <<>>
Get(o) == o[1]

\* three of the dataset configurations (one chunked by size with citations,
\* one local single document, one multi-document); chunkSize is scaled down
\* to the texts explored
citizens_united ==
    [ name |-> "citizens_united", displayName |-> <<"C", "U">>,
      shouldChunk |-> TRUE, useSmartChunking |-> FALSE, chunkSize |-> 2,
      isMultiDocument |-> FALSE, createTableOfContents |-> TRUE,
      tocTitle |-> <<"T">>, detectCitations |-> TRUE, downloadContent |-> TRUE ]
hiking ==
    [ name |-> "hiking", displayName |-> <<"H">>,
      shouldChunk |-> FALSE, useSmartChunking |-> FALSE, chunkSize |-> 0,
      isMultiDocument |-> FALSE, createTableOfContents |-> FALSE,
      tocTitle |-> <<>>, detectCitations |-> FALSE, downloadContent |-> FALSE ]
freelaw_nh ==
    [ name |-> "freelaw_nh", displayName |-> <<"N", "H">>,
      shouldChunk |-> FALSE, useSmartChunking |-> FALSE, chunkSize |-> 0,
      isMultiDocument |-> TRUE, createTableOfContents |-> TRUE,
      tocTitle |-> <<"T">>, detectCitations |-> FALSE, downloadContent |-> TRUE ]
Datasets == { citizens_united, hiking, freelaw_nh }
NoDataset == [ hiking EXCEPT !.name = "", !.displayName = <<>> ]

Commands == {"download", "load", "annotate", "validate"}

\* what dataset.loadText() and dataset.loadDocuments() may return
LoadedTexts == { <<"a", "b">>, <<"a", "\n", "\n", "b">> }
LoadedDocuments ==
    { << [ title |-> <<"A">>, content |-> <<"x">>, format |-> "" ] >>,
      << [ title |-> <<"A">>, content |-> <<"x">>, format |-> "" ],
         [ title |-> <<"B">>, content |-> <<"y">>, format |-> "text/markdown" ] >> }

\* chunkBySize and chunkText run to completion
RECURSIVE ChunkBySizeLoop(_, _, _, _, _, _)
ChunkBySizeLoop(s, size, prefix, k, part, list) ==
    IF ChunkBySizeLoopCond(s, k)
    THEN LET r == ChunkBySizeIteration(s, size, prefix, k, part, list)
         IN  ChunkBySizeLoop(s, size, prefix, r.i, r.partNumber, r.chunks)
    ELSE list
chunkBySize(s, size, prefix) == ChunkBySizeLoop(s, size, prefix, 0, 1, <<>>)

RECURSIVE ChunkTextLoop(_, _, _, _, _, _, _)
ChunkTextLoop(s, bps, target, prefix, sPos, part, list) ==
    IF ChunkTextLoopCond(s, sPos)
    THEN LET r == ChunkTextIteration(s, bps, target, prefix, sPos, part, list)
         IN  ChunkTextLoop(s, bps, target, prefix, r.startPos, r.partNumber, r.chunks)
    ELSE list
chunkText(s, target, prefix) ==
    ChunkTextLoop(s, findParagraphBreaks(s), target, prefix, 0, 1, <<>>)

\* the chunks loadCommand uploads and annotateCommand scans for a text
ChunksOf(ds, formatted) ==
    IF ds.shouldChunk
    THEN IF ds.useSmartChunking
         THEN chunkText(formatted, ds.chunkSize, ds.displayName \o <<" ", "-", " ", "P", "a", "r", "t">>)
         ELSE chunkBySize(formatted, ds.chunkSize, ds.displayName \o <<" ", "-", " ", "P", "a", "r", "t">>)
    ELSE << [ title |-> ds.displayName, content |-> formatted, partNumber |-> 1 ] >>

\* documents.map of annotateCommand: each document is treated as a chunk
DocumentsAsChunks(docs) ==
    [ n \in 1..Len(docs) |->
        [ title |-> docs[n].title, content |-> docs[n].content, partNumber |-> n ] ]

---------------------------------------------------------------------------
(* The backend, as the commands see it. *)

\* the prefixes under which a backend hands out identifiers
IdBases == {"http://x", "http://y"}

Pending == [ kind |-> "pending" ]
Resolved == [ kind |-> "ok" ]
Rejected == [ kind |-> "throw", message |-> "HTTP 500" ]

\* the outcomes of client.createResource for process record r: a resource with
\* a new id, or a rejection
ResourceOutcomes(r) ==
    { [ kind |-> "ok", id |-> <<r.idBase, "/resources/", DigitChar(r.created + 1)>> ] }
        \cup [ kind : {"throw"}, message : ErrorMessages ]

\* the outcomes of client.createAnnotation: an annotation whose id has the
\* shape <base>/annotations/<short id>, one whose id has not, or a rejection
AnnotationOutcomes(r) ==
    { [ kind |-> "ok", id |-> <<r.idBase, "/annotations/", DigitChar(r.created + 1)>> ],
      [ kind |-> "ok", id |-> <<r.idBase, DigitChar(r.created + 1)>> ],
      Rejected }

\* the outcomes of a call whose result the commands do not look into
PlainOutcomes == { Resolved, Rejected }

\* String.prototype.split(sep) on a string written as its pieces
RECURSIVE Split(_, _)
Split(s, sep) ==
    IF \E n \in 1..Len(s) : s[n] = sep
    THEN LET n == CHOOSE n \in 1..Len(s) : s[n] = sep /\ \A m \in 1..(n - 1) : s[m] # sep
         IN  <<SubSeq(s, 1, n - 1)>> \o Split(SubSeq(s, n + 1, Len(s)), sep)
    ELSE <<s>>

---------------------------------------------------------------------------
(* The state file: JSON.stringify and JSON.parse.  A file is a sequence of *)
(* tokens, one per line of the pretty-printed JSON text.                   *)

Tok(t, key, s, cs, n) == [ t |-> t, key |-> key, s |-> s, cs |-> cs, n |-> n ]

\* the lines of one element of references
ReferenceTokens(ref) ==
    << Tok("{", "", "", <<>>, 0),
       Tok("text", "text", "", ref.text, 0),
       Tok("number", "start", "", <<>>, ref.start),
       Tok("number", "end", "", <<>>, ref.end),
       Tok("text", "documentId", "", ref.documentId, 0) >>
    \o (IF IsSome(ref.annotationId)
        THEN << Tok("text", "annotationId", "", Get(ref.annotationId), 0) >>
        ELSE <<>>)
    \o << Tok("}", "", "", <<>>, 0) >>

RECURSIVE ReferenceListTokens(_)
ReferenceListTokens(refs) ==
    IF refs = <<>> THEN <<>>
    ELSE ReferenceTokens(Head(refs)) \o ReferenceListTokens(Tail(refs))

\* JSON.stringify(fullState, null, 2): a key whose value is undefined is left out
JsonStringify(full) ==
    << Tok("{", "", "", <<>>, 0), Tok("string", "dataset", full.dataset, <<>>, 0) >>
    \o (IF IsSome(full.tocId)
        THEN << Tok("text", "tocId", "", Get(full.tocId), 0) >> ELSE <<>>)
    \o (IF IsSome(full.chunkIds)
        THEN << Tok("[", "chunkIds", "", <<>>, 0) >>
             \o [ n \in 1..Len(Get(full.chunkIds)) |->
                    Tok("text", "", "", Get(full.chunkIds)[n], 0) ]
             \o << Tok("]", "", "", <<>>, 0) >>
        ELSE <<>>)
    \o (IF IsSome(full.references)
        THEN << Tok("[", "references", "", <<>>, 0) >>
             \o ReferenceListTokens(Get(full.references))
             \o << Tok("]", "", "", <<>>, 0) >>
        ELSE <<>>)
    \o << Tok("text", "formattedText", "", full.formattedText, 0),
          Tok("}", "", "", <<>>, 0) >>

\* the result of parsing: the value read and the position after it, or a
\* SyntaxError
ParseError == [ ok |-> FALSE ]
Parsed(v, next) == [ ok |-> TRUE, value |-> v, next |-> next ]

\* the value of a line that holds a key and a scalar
ScalarOf(tok) ==
    IF tok.t = "string" THEN tok.s ELSE IF tok.t = "number" THEN tok.n ELSE tok.cs

RECURSIVE ParseMembers(_, _, _)
RECURSIVE ParseElements(_, _, _)

\* the members of an object from position pos, up to its closing brace
ParseMembers(toks, pos, obj) ==
    IF pos > Len(toks) THEN ParseError
    ELSE LET tok == toks[pos]
         IN  IF tok.t = "}" THEN Parsed(obj, pos + 1)
             ELSE IF tok.key = "" THEN ParseError
             ELSE IF tok.t \in {"string", "number", "text"}
                  THEN ParseMembers(toks, pos + 1,
                                    (tok.key :> ScalarOf(tok)) @@ obj)
             ELSE IF tok.t = "["
                  THEN LET list == ParseElements(toks, pos + 1, <<>>)
                       IN  IF list.ok
                           THEN ParseMembers(toks, list.next,
                                             (tok.key :> list.value) @@ obj)
                           ELSE ParseError
             ELSE ParseError

\* the elements of an array from position pos, up to its closing bracket
ParseElements(toks, pos, list) ==
    IF pos > Len(toks) THEN ParseError
    ELSE LET tok == toks[pos]
         IN  IF tok.t = "]" THEN Parsed(list, pos + 1)
             ELSE IF tok.key # "" THEN ParseError
             ELSE IF tok.t = "text"
                  THEN ParseElements(toks, pos + 1, Append(list, tok.cs))
             ELSE IF tok.t = "{"
                  THEN LET element == ParseMembers(toks, pos + 1, <<>>)
                       IN  IF element.ok
                           THEN ParseElements(toks, element.next,
                                              Append(list, element.value))
                           ELSE ParseError
             ELSE ParseError

\* JSON.parse(data): the object read, or a SyntaxError
JsonParse(toks) ==
    IF toks = <<>> \/ toks[1].t # "{" \/ toks[1].key # "" THEN ParseError
    ELSE LET object == ParseMembers(toks, 2, <<>>)
         IN  IF object.ok /\ object.next = Len(toks) + 1 THEN object ELSE ParseError

\* property access on a parsed object: undefined when the key is missing
Prop(obj, key) == IF key \in DOMAIN obj THEN Some(obj[key]) ELSE None

\* a file that does not exist
NoFile == [ exists |-> FALSE, data |-> <<>> ]

\* a variant of OpenTruncate that opens the file without truncating it
OpenTruncate_KeepContents(file) == [ exists |-> TRUE, data |-> file.data ]

\* fs.writeFileSync(path, data) opens the file with flag 'w', which creates or
\* truncates it, then writes data at offset 0 and closes the file
OpenTruncate(file) == [ exists |-> TRUE, data |-> <<>> ]
WriteAtStart(file, data) ==
    [ exists |-> TRUE, data |-> data \o SubSeq(file.data, Len(data) + 1, Len(file.data)) ]

\* the object saveState builds: { dataset: dataset.name, ...state }
FullState(r) ==
    [ dataset |-> r.dataset.name, tocId |-> r.tocId, chunkIds |-> Some(r.chunkIds),
      references |-> r.references, formattedText |-> r.formattedText ]

---------------------------------------------------------------------------
(* A process: the locals of the command function and where it stands. *)

IdleProc ==
    [ pc |-> "idle", cmd |-> "none", dataset |-> NoDataset, idBase |-> "",
      auth |-> None, chunks |-> <<>>, k |-> 0, ids |-> <<>>, uploaded |-> <<>>,
      failed |-> <<>>, chunkIds |-> <<>>, tocId |-> None, references |-> None,
      formattedText |-> <<>>, linkedCount |-> 0, state |-> None,
      citations |-> <<>>, j |-> 0, totalAnnotations |-> 0, allResources |-> <<>>,
      results |-> <<>>, created |-> 0, trace |-> <<>>, inFlight |-> {},
      warnings |-> 0, errorPrinted |-> FALSE, exitCode |-> -1 ]

SetProc(p, r) == proc' = [proc EXCEPT ![p] = r]

\* a variant of Throw whose catch block prints the error and lets the process
\* end normally
Throw_ExitZero(r) == [r EXCEPT !.pc = "exited", !.exitCode = 0, !.errorPrinted = TRUE]

\* the catch block of a command: printError(error); process.exit(1)
Throw(r) == [r EXCEPT !.pc = "exited", !.exitCode = 1, !.errorPrinted = TRUE]

\* the command function returns and the process ends
Return(r) == [r EXCEPT !.pc = "exited", !.exitCode = 0]

\* a call is issued at the position r.pc; its promise is pending
Issue(r, op, arg) ==
    [r EXCEPT !.trace = Append(@, [ op |-> op, site |-> r.pc, arg |-> arg,
                                    outcome |-> Pending ]),
              !.inFlight = @ \cup {Len(r.trace) + 1}]

\* a pending promise settles
Settle(r, outcome) ==
    LET n == CHOOSE n \in r.inFlight : TRUE
    IN  [r EXCEPT !.trace[n].outcome = outcome, !.inFlight = @ \ {n}]

\* an awaited operation that is not a backend call, with its argument and
\* its outcome
Awaited(r, op, arg, outcome) ==
    [r EXCEPT !.trace = Append(@, [ op |-> op, site |-> r.pc, arg |-> arg,
                                    outcome |-> outcome ])]
Local(r, op, outcome) == Awaited(r, op, <<>>, outcome)

\* a variant of Suspended for a call that is not awaited
Suspended_NotAwaited(r) == FALSE

\* await: the function does not go on while the promise it awaits is pending
Suspended(r) == r.inFlight # {}

\* the positions of the command functions
At(p, position) == proc[p].pc = position
Running(p) == proc[p].pc \notin {"idle", "exited"}

---------------------------------------------------------------------------
(* The command line: one command for one dataset. *)

\* program.action and the command function up to its first await.  loadCommand
\* exits with code 1 when the cache file is missing.
Start(p, c, ds, base) ==
    /\ ~Running(p)
    /\ LET r == [IdleProc EXCEPT !.cmd = c, !.dataset = ds, !.idBase = base]
       IN  SetProc(p, IF c = "download" THEN [r EXCEPT !.pc = "download"]
                      ELSE IF c = "load" /\ ds.name \notin cacheFiles THEN Throw(r)
                      ELSE [r EXCEPT !.pc = "auth"])
    /\ UNCHANGED <<stateFile, cacheFiles, lastSaved>>

\* downloadCommand: nothing to do when the cache file exists or the dataset is
\* local; otherwise downloadContent writes the cache file or throws
Download(p) ==
    /\ At(p, "download")
    /\ LET r == proc[p]
       IN  IF r.dataset.name \in cacheFiles \/ ~r.dataset.downloadContent
           THEN SetProc(p, Return(r)) /\ UNCHANGED cacheFiles
           ELSE \E outcome \in PlainOutcomes :
                  IF outcome.kind = "ok"
                  THEN /\ SetProc(p, Return(Local(r, "downloadContent", outcome)))
                       /\ cacheFiles' = cacheFiles \cup {r.dataset.name}
                  ELSE /\ SetProc(p, Throw(Local(r, "downloadContent", outcome)))
                       /\ UNCHANGED cacheFiles
    /\ UNCHANGED <<stateFile, lastSaved>>

\* where a command goes on after authenticate returned
AfterAuth(r) == IF r.cmd = "load" THEN "loadInput" ELSE "loadState"

\* authenticate without a backend call: an access token is configured, or the
\* password is missing and authenticate throws
AuthenticateLocal(p) ==
    /\ At(p, "auth")
    /\ ~Suspended(proc[p])
    /\ \E config \in {"accessToken", "noPassword"} :
          SetProc(p, IF config = "accessToken"
                     THEN [proc[p] EXCEPT !.auth = Some("token"), !.pc = AfterAuth(proc[p])]
                     ELSE Throw(Local(proc[p], "authenticate", Rejected)))
    /\ UNCHANGED <<stateFile, cacheFiles, lastSaved>>

\* authenticate with email and password: client.authenticatePassword
AuthenticateCall(p) ==
    /\ At(p, "auth")
    /\ ~Suspended(proc[p])
    /\ SetProc(p, Issue(proc[p], "authenticatePassword", <<>>))
    /\ UNCHANGED <<stateFile, cacheFiles, lastSaved>>

\* a variant of AuthenticateResult that logs a failed authentication and
\* goes on without a credential
AuthenticateResult_GoOn(r, outcome) ==
    IF outcome.kind = "ok"
    THEN [r EXCEPT !.auth = Some("token"), !.pc = AfterAuth(r)]
    ELSE [r EXCEPT !.warnings = @ + 1, !.pc = AfterAuth(r)]

\* the call settled: the access token is returned, or the error is printed
\* and thrown again, which ends the command
AuthenticateResult(r, outcome) ==
    IF outcome.kind = "ok"
    THEN [r EXCEPT !.auth = Some("token"), !.pc = AfterAuth(r)]
    ELSE Throw(r)

AuthenticateSettle(p) ==
    /\ At(p, "auth")
    /\ proc[p].inFlight # {}
    /\ \E outcome \in PlainOutcomes :
          SetProc(p, AuthenticateResult(Settle(proc[p], outcome), outcome))
    /\ UNCHANGED <<stateFile, cacheFiles, lastSaved>>

---------------------------------------------------------------------------
(* loadCommand. *)

\* dataset.loadDocuments() or dataset.loadText(), then the chunking: the items
\* to upload
LoadInput(p) ==
    /\ At(p, "loadInput")
    /\ LET r == proc[p]
       IN  \/ SetProc(p, Throw(Local(r, IF r.dataset.isMultiDocument
                                        THEN "loadDocuments" ELSE "loadText", Rejected)))
           \/ /\ r.dataset.isMultiDocument
              /\ \E docs \in LoadedDocuments :
                    SetProc(p, [Local(r, "loadDocuments", Resolved)
                                  EXCEPT !.chunks = docs, !.k = 0, !.pc = "upload"])
           \/ /\ ~r.dataset.isMultiDocument
              /\ \E formatted \in LoadedTexts :
                    SetProc(p, [Local(r, "loadText", Resolved)
                                  EXCEPT !.formattedText = formatted,
                                         !.chunks = ChunksOf(r.dataset, formatted),
                                         !.k = 0, !.pc = "upload"])
    /\ UNCHANGED <<stateFile, cacheFiles, lastSaved>>

\* the helper loadCommand calls for its items
UploadHelper(ds) == IF ds.isMultiDocument THEN "uploadDocuments" ELSE "uploadChunks"

\* uploadChunks / uploadDocuments: client.createResource for item k
LoadUploadCall(p) ==
    /\ At(p, "upload")
    /\ ~Suspended(proc[p])
    /\ proc[p].k < Len(proc[p].chunks)
    /\ LET r == proc[p]
       IN  SetProc(p, Issue(r, "createResource",
                            UploadRequest(UploadHelper(r.dataset), r.chunks[r.k + 1])))
    /\ UNCHANGED <<stateFile, cacheFiles, lastSaved>>

\* the call settles: the rest of the loop body, with its catch block
LoadUploadSettle(p) ==
    /\ At(p, "upload")
    /\ proc[p].inFlight # {}
    /\ \E outcome \in ResourceOutcomes(proc[p]) :
          LET r == Settle(proc[p], outcome)
              u == UploadIteration(UploadHelper(r.dataset), r.chunks, r.k,
                                   r.ids, r.uploaded, r.failed, outcome)
          IN  SetProc(p, [r EXCEPT !.ids = u.ids, !.uploaded = u.uploaded,
                                   !.failed = u.failed, !.k = @ + 1,
                                   !.created = IF outcome.kind = "ok" THEN @ + 1 ELSE @])
    /\ UNCHANGED <<stateFile, cacheFiles, lastSaved>>

\* the helper returns: chunkIds = result.ids; then the table of contents, if
\* the dataset has one, else the document history of chunkIds[0]
LoadUploadReturn(p) ==
    /\ At(p, "upload")
    /\ ~Suspended(proc[p])
    /\ ~(proc[p].k < Len(proc[p].chunks))
    /\ SetProc(p, [proc[p] EXCEPT !.chunkIds = proc[p].ids, !.k = 0,
                                  !.pc = IF proc[p].dataset.createTableOfContents
                                         THEN "toc" ELSE "history"])
    /\ UNCHANGED <<stateFile, cacheFiles, lastSaved>>

\* new Date().toISOString()
Timestamp ==
    << "2", "0", "2", "6", "-", "1", "1", "-", "0", "3", "T",
       "1", "1", ":", "0", "0", ":", "0", "0", ".", "0", "0", "0", "Z" >>

\* content before the forEach: "# <title>\n\n", "_Generated: <timestamp>_\n\n",
\* then the heading and "\n\n"
TocHeader(title, heading) ==
    <<"#", " ">> \o title \o <<"\n", "\n">>
    \o <<"_", "G", "e", "n", "e", "r", "a", "t", "e", "d", ":", " ">>
    \o Timestamp \o <<"_", "\n", "\n">>
    \o heading \o <<"\n", "\n">>

\* a variant of TocEntry whose start is content.length, the numbering not
\* counted
TocEntry_NumberingNotCounted(n, label, content) ==
    LET numbering == NumberToString(n) \o <<".", " ">>
        start == Len(content)
        end == start + Len(label)
    IN  [ reference |-> [ text |-> label, start |-> start, end |-> end,
                          documentId |-> <<>>, annotationId |-> None ],
          listItem |-> numbering \o label \o <<"\n">> ]

\* the body of the forEach for entry n (index n - 1): the reference pushed and
\* the list item added to content
TocEntry(n, label, content) ==
    LET numbering == NumberToString(n) \o <<".", " ">>
        start == Len(content) + Len(numbering)
        end == start + Len(label)
    IN  [ reference |-> [ text |-> label, start |-> start, end |-> end,
                          documentId |-> <<>>, annotationId |-> None ],
          listItem |-> numbering \o label \o <<"\n">> ]

\* the forEach of createTableOfContents / createDocumentTableOfContents from
\* entry n on: content and references as they are before the entry is added
RECURSIVE TocEntries(_, _, _, _)
TocEntries(labels, n, content, refs) ==
    IF n > Len(labels) THEN [ content |-> content, references |-> refs ]
    ELSE LET entry == TocEntry(n, labels[n], content)
         IN  TocEntries(labels, n + 1, content \o entry.listItem,
                        Append(refs, entry.reference))

\* the text of the reference to an uploaded item
TocLabels(ds, list) ==
    [ n \in 1..Len(list) |->
        IF ds.isMultiDocument THEN list[n].title
        ELSE <<"P", "a", "r", "t", " ">> \o NumberToString(list[n].partNumber) ]

\* content and references of the table of contents of the uploaded items
TocBuilt(ds, list) ==
    TocEntries(TocLabels(ds, list), 1,
               TocHeader(ds.tocTitle,
                         IF ds.isMultiDocument
                         THEN <<"#", "#", " ", "D", "o", "c", "u", "m", "e", "n", "t", "s">>
                         ELSE <<"#", "#", " ", "P", "a", "r", "t", "s">>),
               <<>>)

TocReferences(ds, list) == TocBuilt(ds, list).references

\* createTableOfContents: client.createResource for the table of contents
TocCall(p) ==
    /\ At(p, "toc")
    /\ ~Suspended(proc[p])
    /\ LET r == proc[p]
       IN  SetProc(p, Issue(r, "createResource",
                            [ name |-> r.dataset.tocTitle,
                              file |-> TocBuilt(r.dataset, r.uploaded).content,
                              format |-> "text/markdown",
                              entityTypes |-> <<"table-of-contents">> ]))
    /\ UNCHANGED <<stateFile, cacheFiles, lastSaved>>

\* the call settles: tocId and references are returned, or the error leaves
\* loadCommand's try block
TocSettle(p) ==
    /\ At(p, "toc")
    /\ proc[p].inFlight # {}
    /\ \E outcome \in ResourceOutcomes(proc[p]) :
          LET r == Settle(proc[p], outcome)
          IN  SetProc(p, IF outcome.kind = "ok"
                         THEN [r EXCEPT !.tocId = Some(outcome.id),
                                        !.references = Some(TocReferences(r.dataset, r.uploaded)),
                                        !.created = @ + 1, !.k = 0, !.pc = "stubs"]
                         ELSE Throw(r))
    /\ UNCHANGED <<stateFile, cacheFiles, lastSaved>>

\* the references of a process that has a table of contents
Refs(r) == Get(r.references)

\* array[n] for a 0-based n: the empty string stands for undefined
ElementAt(list, n) == IF n + 1 <= Len(list) THEN list[n + 1] ELSE <<>>

\* the request createStubReferences sends for a reference: a tag body only
StubRequest(toc, ref) ==
    [ resource |-> toc, motivation |-> "linking", source |-> toc,
      start |-> ref.start, end |-> ref.end, exact |-> ref.text,
      body |-> << [ type |-> "TextualBody", value |-> "part-reference",
                    purpose |-> "tagging" ] >> ]

\* createStubReferences, reference k: ref.documentId = chunkIds[k], then
\* client.createAnnotation
StubCall(p) ==
    /\ At(p, "stubs")
    /\ ~Suspended(proc[p])
    /\ proc[p].k < Len(Refs(proc[p]))
    /\ LET r == proc[p]
           ref == [Refs(r)[r.k + 1] EXCEPT !.documentId = ElementAt(r.chunkIds, r.k)]
           q == [r EXCEPT !.references = Some([Refs(r) EXCEPT ![r.k + 1] = ref])]
       IN  SetProc(p, Issue(q, "createAnnotation", StubRequest(Get(r.tocId), ref)))
    /\ UNCHANGED <<stateFile, cacheFiles, lastSaved>>

\* the call settles: ref.annotationId = response.annotation.id; a rejection
\* leaves createStubReferences and loadCommand's try block
StubSettle(p) ==
    /\ At(p, "stubs")
    /\ proc[p].inFlight # {}
    /\ \E outcome \in AnnotationOutcomes(proc[p]) :
          LET r == Settle(proc[p], outcome)
          IN  SetProc(p, IF outcome.kind = "ok"
                         THEN [r EXCEPT !.references =
                                            Some([Refs(r) EXCEPT ![r.k + 1].annotationId =
                                                                     Some(outcome.id)]),
                                        !.created = @ + 1, !.k = @ + 1]
                         ELSE Throw(r))
    /\ UNCHANGED <<stateFile, cacheFiles, lastSaved>>

\* createStubReferences returns the references; linkReferences starts
StubsReturn(p) ==
    /\ At(p, "stubs")
    /\ ~Suspended(proc[p])
    /\ ~(proc[p].k < Len(Refs(proc[p])))
    /\ SetProc(p, [proc[p] EXCEPT !.k = 0, !.linkedCount = 0, !.pc = "links"])
    /\ UNCHANGED <<stateFile, cacheFiles, lastSaved>>

\* parts.length !== 2 || !parts[1], for parts = annotationId.split('/annotations/')
InvalidAnnotationId(id) ==
    LET parts == Split(id, "/annotations/")
    IN  IF Len(parts) # 2 THEN TRUE ELSE parts[2] = <<>>

\* `${tocId}/annotations/${annotationIdShort}`
NestedUri(toc, id) == toc \o <<"/annotations/">> \o Split(id, "/annotations/")[2]

\* a variant of LinkRequest that links the annotation to the table of
\* contents itself
LinkRequest_SourceIsToc(toc, ref) ==
    [ annotation |-> NestedUri(toc, Get(ref.annotationId)), resourceId |-> toc,
      operations |-> << [ op |-> "add",
                          item |-> [ type |-> "SpecificResource",
                                     source |-> toc,
                                     purpose |-> "linking" ] ] >> ]

\* the request linkReferences sends for a reference
LinkRequest(toc, ref) ==
    [ annotation |-> NestedUri(toc, Get(ref.annotationId)), resourceId |-> toc,
      operations |-> << [ op |-> "add",
                          item |-> [ type |-> "SpecificResource",
                                     source |-> ref.documentId,
                                     purpose |-> "linking" ] ] >> ]

\* linkReferences, reference k: the annotation id is not of the expected shape;
\* the error is caught inside the loop and printed as a warning
LinkInvalid(p) ==
    /\ At(p, "links")
    /\ ~Suspended(proc[p])
    /\ proc[p].k < Len(Refs(proc[p]))
    /\ InvalidAnnotationId(Get(Refs(proc[p])[proc[p].k + 1].annotationId))
    /\ SetProc(p, [proc[p] EXCEPT !.warnings = @ + 1, !.k = @ + 1])
    /\ UNCHANGED <<stateFile, cacheFiles, lastSaved>>

\* linkReferences, reference k: client.updateAnnotationBody
LinkCall(p) ==
    /\ At(p, "links")
    /\ ~Suspended(proc[p])
    /\ proc[p].k < Len(Refs(proc[p]))
    /\ ~InvalidAnnotationId(Get(Refs(proc[p])[proc[p].k + 1].annotationId))
    /\ LET r == proc[p]
       IN  SetProc(p, Issue(r, "updateAnnotationBody",
                            LinkRequest(Get(r.tocId), Refs(r)[r.k + 1])))
    /\ UNCHANGED <<stateFile, cacheFiles, lastSaved>>

\* a variant of LinkIteration that gives up the remaining references after a
\* failed update
LinkIteration_StopsAtFailure(r, outcome) ==
    IF outcome.kind = "ok"
    THEN [r EXCEPT !.linkedCount = @ + 1, !.k = @ + 1]
    ELSE [r EXCEPT !.warnings = @ + 1, !.k = Len(Refs(r))]

\* one pass through the rest of the loop body of linkReferences once the call
\* settled: successCount++ in the try block, a warning in the catch block
LinkIteration(r, outcome) ==
    IF outcome.kind = "ok"
    THEN [r EXCEPT !.linkedCount = @ + 1, !.k = @ + 1]
    ELSE [r EXCEPT !.warnings = @ + 1, !.k = @ + 1]

LinkSettle(p) ==
    /\ At(p, "links")
    /\ proc[p].inFlight # {}
    /\ \E outcome \in PlainOutcomes :
          SetProc(p, LinkIteration(Settle(proc[p], outcome), outcome))
    /\ UNCHANGED <<stateFile, cacheFiles, lastSaved>>

\* linkReferences returns successCount; showDocumentHistory(tocId) is next
LinksReturn(p) ==
    /\ At(p, "links")
    /\ ~Suspended(proc[p])
    /\ ~(proc[p].k < Len(Refs(proc[p])))
    /\ SetProc(p, [proc[p] EXCEPT !.k = 0, !.pc = "history"])
    /\ UNCHANGED <<stateFile, cacheFiles, lastSaved>>

\* the resource whose history a command shows: the table of contents when
\* loadCommand made one, else the first chunk id (of the run or of the state)
HistoryTarget(r) ==
    IF r.cmd = "load"
    THEN IF r.dataset.createTableOfContents THEN Get(r.tocId)
         ELSE ElementAt(r.chunkIds, 0)
    ELSE ElementAt(Get(Prop(Get(r.state), "chunkIds")), 0)

\* where a command goes on after showDocumentHistory returned
AfterHistory(r) ==
    IF r.cmd = "load"
    THEN IF r.dataset.createTableOfContents THEN "save" ELSE "results"
    ELSE "finish"

\* showDocumentHistory: client.getResourceEvents
HistoryCall(p) ==
    /\ At(p, "history")
    /\ ~Suspended(proc[p])
    /\ SetProc(p, Issue(proc[p], "getResourceEvents", HistoryTarget(proc[p])))
    /\ UNCHANGED <<stateFile, cacheFiles, lastSaved>>

\* the call settles: the events are printed, or the error is caught inside
\* showDocumentHistory and printed as a warning
HistoryIteration(r, outcome) ==
    IF outcome.kind = "ok"
    THEN [r EXCEPT !.pc = AfterHistory(r)]
    ELSE [r EXCEPT !.warnings = @ + 1, !.pc = AfterHistory(r)]

HistorySettle(p) ==
    /\ At(p, "history")
    /\ proc[p].inFlight # {}
    /\ \E outcome \in PlainOutcomes :
          SetProc(p, HistoryIteration(Settle(proc[p], outcome), outcome))
    /\ UNCHANGED <<stateFile, cacheFiles, lastSaved>>

\* a variant of LoadResults that writes the state file before it looks at the
\* chunk ids
LoadResults_SavesFirst(p) ==
    /\ At(p, "results")
    /\ LET r == proc[p]
           parts == Split(ElementAt(r.chunkIds, 0), "/resources/")
       IN  /\ stateFile' = WriteAtStart(OpenTruncate(stateFile), JsonStringify(FullState(r)))
           /\ SetProc(p, IF r.chunkIds = <<>> \/ Len(parts) # 2 \/ parts[2] = <<>>
                         THEN Throw(r)
                         ELSE [r EXCEPT !.pc = "save"])
    /\ UNCHANGED <<cacheFiles, lastSaved>>

\* the results of a load without table of contents: chunkIds[0].split throws a
\* TypeError when no chunk was uploaded, and the id must hold '/resources/'
LoadResults(p) ==
    /\ At(p, "results")
    /\ LET r == proc[p]
           parts == Split(ElementAt(r.chunkIds, 0), "/resources/")
       IN  SetProc(p, IF r.chunkIds = <<>> \/ Len(parts) # 2 \/ parts[2] = <<>>
                      THEN Throw(r)
                      ELSE [r EXCEPT !.pc = "save"])
    /\ UNCHANGED <<stateFile, cacheFiles, lastSaved>>

\* saveState, first half of writeFileSync: the state file is opened for writing
\* (the trace keeps what the file held until then and which other processes
\* were between the two halves of their writeFileSync at that moment)
SaveStateOpen(p) ==
    /\ At(p, "save")
    /\ stateFile' = OpenTruncate(stateFile)
    /\ SetProc(p, [Awaited(proc[p], "saveState", stateFile.data,
                             [ kind |-> "ok",
                               during |-> { q \in Procs \ {p} : At(q, "write") } ])
                      EXCEPT !.pc = "write"])
    /\ UNCHANGED <<cacheFiles, lastSaved>>

\* saveState, second half of writeFileSync: the JSON text is written; then
\* loadCommand returns
SaveStateWrite(p) ==
    /\ At(p, "write")
    /\ stateFile' = WriteAtStart(stateFile, JsonStringify(FullState(proc[p])))
    /\ lastSaved' = Some(FullState(proc[p]))
    /\ SetProc(p, Return(proc[p]))
    /\ UNCHANGED cacheFiles

\* showDocumentHistory for an undefined id (no chunk was uploaded): whether
\* resourceUri(undefined) throws before a request is sent is left open; if it
\* throws, the error is caught inside showDocumentHistory
HistoryInvalid(p) ==
    /\ At(p, "history")
    /\ ~Suspended(proc[p])
    /\ HistoryTarget(proc[p]) = <<>>
    /\ SetProc(p, [proc[p] EXCEPT !.warnings = @ + 1, !.pc = AfterHistory(proc[p])])
    /\ UNCHANGED <<stateFile, cacheFiles, lastSaved>>

---------------------------------------------------------------------------
(* annotateCommand and validateCommand. *)

\* a variant of loadState without the check of the dataset name
loadState_AnyDataset(ds, file) ==
    IF ~file.exists THEN None
    ELSE LET parsed == JsonParse(file.data)
         IN  IF ~parsed.ok THEN None ELSE Some(parsed.value)

\* loadState: the parsed state file, or None when loadState throws (no file,
\* no JSON, or the state of another dataset)
loadState(ds, file) ==
    IF ~file.exists THEN None
    ELSE LET parsed == JsonParse(file.data)
         IN  IF ~parsed.ok THEN None
             ELSE IF Prop(parsed.value, "dataset") # Some(ds.name) THEN None
             ELSE Some(parsed.value)

\* allResources of validateCommand: tocId, chunkIds, documentIds, as far as the
\* state has them
AllResources(state) ==
    (IF IsSome(Prop(state, "tocId")) THEN <<state["tocId"]>> ELSE <<>>)
    \o (IF IsSome(Prop(state, "chunkIds")) THEN state["chunkIds"] ELSE <<>>)
    \o (IF IsSome(Prop(state, "documentIds")) THEN state["documentIds"] ELSE <<>>)

\* the step after authenticate: loadState, then for annotateCommand the checks
\* on the dataset and on state.chunkIds and the re-chunking of
\* state.formattedText, for validateCommand the list of resources
LoadState(p) ==
    /\ At(p, "loadState")
    /\ LET r == proc[p]
           loaded == loadState(r.dataset, stateFile)
           q == [Local(r, "loadState", IF IsSome(loaded) THEN Resolved ELSE Rejected)
                   EXCEPT !.state = loaded]
       IN  IF ~IsSome(loaded) THEN SetProc(p, Throw(q))
           ELSE IF r.cmd = "validate"
           THEN SetProc(p, [q EXCEPT !.allResources = AllResources(Get(loaded)),
                                     !.k = 0, !.pc = "fetch"])
           ELSE IF ~r.dataset.detectCitations THEN SetProc(p, Return(q))
           ELSE IF ~IsSome(Prop(Get(loaded), "chunkIds"))
                   \/ Get(loaded)["chunkIds"] = <<>>
                   \/ ~IsSome(Prop(Get(loaded), "formattedText"))
           THEN SetProc(p, Throw(q))
           ELSE IF r.dataset.isMultiDocument
           THEN \/ SetProc(p, Throw(Local(q, "loadDocuments", Rejected)))
                \/ \E docs \in LoadedDocuments :
                      SetProc(p, [Local(q, "loadDocuments", Resolved)
                                    EXCEPT !.chunks = DocumentsAsChunks(docs),
                                           !.k = 0, !.pc = "detect"])
           ELSE SetProc(p, [q EXCEPT !.chunks = ChunksOf(r.dataset,
                                                         Get(loaded)["formattedText"]),
                                     !.k = 0, !.pc = "detect"])
    /\ UNCHANGED <<stateFile, cacheFiles, lastSaved>>

\* what the citation detector may return for a chunk
Citations ==
    { <<>>,
      << [ text |-> <<"5", "U">>, start |-> 0, end |-> 2, type |-> "FullCaseCitation" ] >>,
      << [ text |-> <<"5", "U">>, start |-> 0, end |-> 2, type |-> "FullCaseCitation" ],
         [ text |-> <<"I", "d">>, start |-> 3, end |-> 5, type |-> "IdCitation" ] >> }
CitationOutcomes ==
    { [ kind |-> "ok", citations |-> list ] : list \in Citations } \cup { Rejected }

\* a variant of DetectIteration that looks at the first match only
DetectIteration_FirstMatchOnly(r, outcome) ==
    IF outcome.kind # "ok" THEN Throw(r)
    ELSE IF Len(outcome.citations) > 0
    THEN [r EXCEPT !.citations = <<outcome.citations[1]>>, !.j = 0, !.pc = "annotate"]
    ELSE [r EXCEPT !.k = @ + 1]

\* the loop body of annotateCommand for chunk k, once detectCitations settled:
\* the inner loop runs when there is at least one citation
DetectIteration(r, outcome) ==
    IF outcome.kind # "ok" THEN Throw(r)
    ELSE IF Len(outcome.citations) > 0
    THEN [r EXCEPT !.citations = outcome.citations, !.j = 0, !.pc = "annotate"]
    ELSE [r EXCEPT !.k = @ + 1]

\* annotateCommand, chunk k: await detectCitations(chunk.content)
DetectCitations(p) ==
    /\ At(p, "detect")
    /\ proc[p].k < Len(proc[p].chunks)
    /\ \E outcome \in CitationOutcomes :
          SetProc(p, DetectIteration(Awaited(proc[p], "detectCitations",
                                             proc[p].chunks[proc[p].k + 1].content,
                                             outcome),
                                     outcome))
    /\ UNCHANGED <<stateFile, cacheFiles, lastSaved>>

\* the loop over the chunks ends: the total is printed, the history is next
DetectReturn(p) ==
    /\ At(p, "detect")
    /\ ~(proc[p].k < Len(proc[p].chunks))
    /\ SetProc(p, [proc[p] EXCEPT !.k = 0, !.pc = "history"])
    /\ UNCHANGED <<stateFile, cacheFiles, lastSaved>>

\* the request annotateCommand sends for a citation of the chunk with id chunkId
CitationRequest(chunkId, citation) ==
    [ resource |-> chunkId, motivation |-> "linking", source |-> chunkId,
      start |-> citation.start, end |-> citation.end, exact |-> citation.text,
      body |-> << [ type |-> "TextualBody", value |-> "LegalCitation",
                    purpose |-> "tagging" ] >> ]

\* annotateCommand, citation j of chunk k: client.createAnnotation
AnnotationCall(p) ==
    /\ At(p, "annotate")
    /\ ~Suspended(proc[p])
    /\ LET r == proc[p]
       IN  SetProc(p, Issue(r, "createAnnotation",
                            CitationRequest(ElementAt(Get(r.state)["chunkIds"], r.k),
                                            r.citations[r.j + 1])))
    /\ UNCHANGED <<stateFile, cacheFiles, lastSaved>>

\* the call settles: totalAnnotations++, then the next citation or the next
\* chunk; a rejection leaves annotateCommand's try block
AnnotationSettle(p) ==
    /\ At(p, "annotate")
    /\ proc[p].inFlight # {}
    /\ \E outcome \in PlainOutcomes :
          LET r == Settle(proc[p], outcome)
          IN  SetProc(p, IF outcome.kind # "ok" THEN Throw(r)
                         ELSE IF r.j + 1 < Len(r.citations)
                         THEN [r EXCEPT !.totalAnnotations = @ + 1, !.j = @ + 1]
                         ELSE [r EXCEPT !.totalAnnotations = @ + 1, !.j = 0,
                                        !.k = @ + 1, !.pc = "detect"])
    /\ UNCHANGED <<stateFile, cacheFiles, lastSaved>>

\* annotateCommand prints its summary and returns
AnnotateReturn(p) ==
    /\ At(p, "finish")
    /\ SetProc(p, Return(proc[p]))
    /\ UNCHANGED <<stateFile, cacheFiles, lastSaved>>

\* validateResources, resource k: client.getResourceRepresentation
FetchCall(p) ==
    /\ At(p, "fetch")
    /\ ~Suspended(proc[p])
    /\ proc[p].k < Len(proc[p].allResources)
    /\ SetProc(p, Issue(proc[p], "getResourceRepresentation",
                        proc[p].allResources[proc[p].k + 1]))
    /\ UNCHANGED <<stateFile, cacheFiles, lastSaved>>

\* a variant of FetchIteration whose catch block pushes no result
FetchIteration_DropsFailed(r, outcome) ==
    IF outcome.kind = "ok"
    THEN [r EXCEPT !.results = Append(@, [ uri |-> r.allResources[r.k + 1],
                                           status |-> "success" ]),
                   !.k = @ + 1]
    ELSE [r EXCEPT !.k = @ + 1]

\* one pass through the rest of the loop body of validateResources once the
\* call settled: a 'success' result, or an 'error' result from the catch block
FetchIteration(r, outcome) ==
    [r EXCEPT !.results = Append(@, [ uri |-> r.allResources[r.k + 1],
                                      status |-> IF outcome.kind = "ok"
                                                 THEN "success" ELSE "error" ]),
              !.k = @ + 1]

FetchSettle(p) ==
    /\ At(p, "fetch")
    /\ proc[p].inFlight # {}
    /\ \E outcome \in PlainOutcomes :
          SetProc(p, FetchIteration(Settle(proc[p], outcome), outcome))
    /\ UNCHANGED <<stateFile, cacheFiles, lastSaved>>

\* validateResources returns; validateCommand prints the summary and returns
ValidateReturn(p) ==
    /\ At(p, "fetch")
    /\ ~Suspended(proc[p])
    /\ ~(proc[p].k < Len(proc[p].allResources))
    /\ SetProc(p, Return(proc[p]))
    /\ UNCHANGED <<stateFile, cacheFiles, lastSaved>>

\* no command has run
RunIdle ==
    /\ proc = [ p \in Procs |-> IdleProc ]
    /\ stateFile = NoFile
    /\ cacheFiles = {}
    /\ lastSaved = None

\* the local dataset's file is in place, the others are to be downloaded
RunInit ==
    /\ proc = [ p \in Procs |-> IdleProc ]
    /\ stateFile = NoFile
    /\ cacheFiles = {"hiking"}
    /\ lastSaved = None

---------------------------------------------------------------------------
(* Interactive mode: the TerminalApp.  It shows the commands of the dataset *)
(* directory the model follows and runs the selected command inside its    *)
(* own process: process.exit in a command ends the application.            *)

\* buildListItems: the dataset header, then the commands the dataset has
buildListItems(ds) ==
    << [ type |-> "dataset", command |-> "" ] >>
    \o (IF ds.downloadContent
        THEN << [ type |-> "command", command |-> "download" ] >> ELSE <<>>)
    \o << [ type |-> "command", command |-> "load" ] >>
    \o (IF ds.detectCitations
        THEN << [ type |-> "command", command |-> "annotate" ] >> ELSE <<>>)
    \o << [ type |-> "command", command |-> "validate" ] >>

\* !!state.annotations for the parsed state file; false when the file is
\* missing or cannot be parsed
HasAnnotations(file) ==
    IF file.exists /\ JsonParse(file.data).ok
    THEN IsSome(Prop(JsonParse(file.data).value, "annotations"))
    ELSE FALSE

\* checkCommandStatuses
checkCommandStatuses(ds, cache, file) ==
    (IF ds.downloadContent
     THEN << [ command |-> "download", hasRun |-> ds.name \in cache ] >> ELSE <<>>)
    \o << [ command |-> "load", hasRun |-> file.exists ] >>
    \o (IF ds.detectCitations
        THEN << [ command |-> "annotate", hasRun |-> HasAnnotations(file) ] >> ELSE <<>>)
    \o << [ command |-> "validate", hasRun |-> FALSE ] >>

\* getCommandStatus: false when the command has no status
getCommandStatus(statuses, command) ==
    \E n \in 1..Len(statuses) : statuses[n].command = command /\ statuses[n].hasRun

\* console.log and console.error of the process: the functions of the
\* runtime, or the closures of executeSelected that write to the activity log
RuntimeConsole == [ log |-> "runtime", error |-> "runtime" ]
ActivityConsole == [ log |-> "activity", error |-> "activity" ]

\* no TerminalApp.  console holds console.log and console.error; originals
\* holds originalLog and originalError of each executeSelected under way
NoUi ==
    [ launched |-> FALSE, quit |-> FALSE, dataset |-> NoDataset, listItems |-> <<>>,
      selected |-> 0, isRunningCommand |-> FALSE, commandStatuses |-> <<>>,
      lastMessage |-> "", awaited |-> {}, backend |-> "",
      console |-> RuntimeConsole,
      originals |-> [ p \in Procs |-> RuntimeConsole ] ]

\* new TerminalApp(DATASETS) and run(): the first item is selected and the
\* welcome lines are in the activity log.  The backend is the one the
\* environment named when the process started.
TerminalApp(ds, cache, file, base) ==
    [ NoUi EXCEPT !.launched = TRUE, !.dataset = ds, !.backend = base,
                  !.listItems = buildListItems(ds),
                  !.commandStatuses = checkCommandStatuses(ds, cache, file),
                  !.lastMessage = "welcome" ]

\* the application is running: it was not quit and no command called
\* process.exit(1)
UiAlive ==
    /\ ui.launched
    /\ ~ui.quit
    /\ \A p \in Procs : proc[p].exitCode # 1

\* the item under the cursor
Selected(u) == u.listItems[u.selected + 1]

\* a variant of IsRunningCommand for an executeSelected without the check
IsRunningCommand_Unchecked(u) == FALSE

\* the check of executeSelected: this.isRunningCommand
IsRunningCommand(u) == u.isRunningCommand

\* a process slot for the command function to run in
FreeSlot == CHOOSE p \in Procs : ~Running(p) /\ \A q \in Procs : q < p => Running(q)

\* the list moves the cursor down or up
KeyDown ==
    /\ UiAlive
    /\ ui.selected + 1 < Len(ui.listItems)
    /\ ui' = [ui EXCEPT !.selected = @ + 1]
    /\ UNCHANGED runVars

KeyUp ==
    /\ UiAlive
    /\ ui.selected > 0
    /\ ui' = [ui EXCEPT !.selected = @ - 1]
    /\ UNCHANGED runVars

\* escape, q or Control-C: process.exit(0)
KeyQuit ==
    /\ UiAlive
    /\ ui' = [ui EXCEPT !.quit = TRUE]
    /\ UNCHANGED runVars

\* enter on a command while a command is running: executeSelected logs that
\* another command is already running and returns
ExecuteSelectedBusy ==
    /\ UiAlive
    /\ Selected(ui).type = "command"
    /\ IsRunningCommand(ui)
    /\ ui' = [ui EXCEPT !.lastMessage = "busy"]
    /\ UNCHANGED runVars

\* enter on a command: executeSelected sets isRunningCommand, keeps
\* console.log and console.error in originalLog and originalError, replaces
\* them by closures that write to the activity log and calls the command
\* function, which runs up to its first await
ExecuteSelected ==
    /\ UiAlive
    /\ Selected(ui).type = "command"
    /\ ~IsRunningCommand(ui)
    /\ \E p \in Procs : ~Running(p)
    /\ Start(FreeSlot, Selected(ui).command, ui.dataset,
             IF Selected(ui).command = "load" THEN ui.backend ELSE "")
    /\ ui' = [ui EXCEPT !.isRunningCommand = TRUE, !.awaited = @ \cup {FreeSlot},
                        !.lastMessage = "executing",
                        !.originals[FreeSlot] = ui.console,
                        !.console = ActivityConsole]

\* a variant of CommandCompleted whose finally block leaves console.log and
\* console.error as they are
CommandCompleted_ConsoleKept(p) ==
    /\ UiAlive
    /\ p \in ui.awaited
    /\ proc[p].pc = "exited"
    /\ proc[p].exitCode = 0
    /\ ui' = [ui EXCEPT !.isRunningCommand = FALSE, !.awaited = @ \ {p},
                        !.lastMessage = "success",
                        !.originals[p] = RuntimeConsole,
                        !.commandStatuses =
                            checkCommandStatuses(ui.dataset, cacheFiles, stateFile)]
    /\ UNCHANGED runVars

\* the command function returned: executeSelected logs the success and, in
\* its finally block, puts originalLog and originalError back, clears
\* isRunningCommand and refreshes the statuses
CommandCompleted(p) ==
    /\ UiAlive
    /\ p \in ui.awaited
    /\ proc[p].pc = "exited"
    /\ proc[p].exitCode = 0
    /\ ui' = [ui EXCEPT !.isRunningCommand = FALSE, !.awaited = @ \ {p},
                        !.lastMessage = "success",
                        !.console = ui.originals[p],
                        !.originals[p] = RuntimeConsole,
                        !.commandStatuses =
                            checkCommandStatuses(ui.dataset, cacheFiles, stateFile)]
    /\ UNCHANGED runVars

\* no interactive mode
UiIdle == ui = NoUi

\* interactive mode starts in a dataset directory without state file, with
\* one of the backends
UiInit ==
    /\ proc = [ p \in Procs |-> IdleProc ]
    /\ stateFile = NoFile
    /\ cacheFiles = {"hiking"}
    /\ lastSaved = None
    /\ \E ds \in Datasets : ui = TerminalApp(ds, cacheFiles, stateFile, "http://x")

---------------------------------------------------------------------------
(* Two load runs for the same dataset at the same time: two processes, the *)
(* same dataset directory, the same backend.  The backend and the detector *)
(* are taken to answer every call of these runs except the uploads, which  *)
(* may fail.                                                               *)

\* the backend hands the two runs different identifiers
RaceBase(p) == IF p = 1 THEN "http://x" ELSE "http://y"

\* the step of process p ends without a thrown error, without a warning and
\* without an annotation id of unexpected shape
Untroubled(p) ==
    /\ proc'[p].exitCode # 1
    /\ proc'[p].warnings = 0
    /\ IsSome(proc'[p].references) =>
          \A n \in 1..Len(Get(proc'[p].references)) :
              IsSome(Get(proc'[p].references)[n].annotationId) =>
                  ~InvalidAnnotationId(Get(Get(proc'[p].references)[n].annotationId))

\* both runs read the same cache file
SameInput(p) ==
    \A q \in Procs \ {p} :
        proc[q].chunks # <<>> => proc'[p].chunks = proc[q].chunks

\* a load run starts, for the dataset of the run already started if there is
\* one; each process runs once
StartRace(p) ==
    /\ proc[p].pc = "idle"
    /\ \E ds \in Datasets :
          /\ \A q \in Procs : proc[q].cmd # "none" => proc[q].dataset = ds
          /\ Start(p, "load", ds, RaceBase(p))

\* the cache files are in place and there is no state file
RaceInit ==
    /\ proc = [ p \in Procs |-> IdleProc ]
    /\ stateFile = NoFile
    /\ cacheFiles = { ds.name : ds \in Datasets }
    /\ lastSaved = None

---------------------------------------------------------------------------
(* The specifications. *)

\* the chunkers, run on their own
Init == ChunkInit /\ UploadIdle /\ RunIdle /\ UiIdle

Next ==
    \/ ChunkTextStep /\ UNCHANGED <<uploadVars, runVars, uiVars>>
    \/ ChunkTextReturn /\ UNCHANGED <<uploadVars, runVars, uiVars>>
    \/ ChunkBySizeStep /\ UNCHANGED <<uploadVars, runVars, uiVars>>
    \/ ChunkBySizeReturn /\ UNCHANGED <<uploadVars, runVars, uiVars>>

Spec == Init /\ [][Next]_vars

\* the chunkers from their call on, the loop running on as long as its
\* condition holds
InitFair == ChunkIdle /\ UploadIdle /\ RunIdle /\ UiIdle

NextFair ==
    \/ ChunkCall /\ UNCHANGED <<uploadVars, runVars, uiVars>>
    \/ ChunkTextStep /\ UNCHANGED <<uploadVars, runVars, uiVars>>
    \/ ChunkTextReturn /\ UNCHANGED <<uploadVars, runVars, uiVars>>
    \/ ChunkBySizeStep /\ UNCHANGED <<uploadVars, runVars, uiVars>>
    \/ ChunkBySizeReturn /\ UNCHANGED <<uploadVars, runVars, uiVars>>

\* the loop of chunkText goes on while its condition holds: weak fairness of
\* ChunkTextStep, with the condition under which the step can be taken
\* written out
ChunkTextStepEnabled == pc = "loop" /\ fn = "chunkText" /\ ChunkTextLoopCond(text, startPos)
ChunkTextStepFair ==
    \/ []<>(~ChunkTextStepEnabled)
    \/ []<><<ChunkTextStep /\ UNCHANGED <<uploadVars, runVars, uiVars>>>>_vars

SpecFair ==
    /\ InitFair
    /\ [][NextFair]_vars
    /\ ChunkTextStepFair
    /\ WF_vars(ChunkTextReturn /\ UNCHANGED <<uploadVars, runVars, uiVars>>)
    /\ WF_vars(ChunkBySizeStep /\ UNCHANGED <<uploadVars, runVars, uiVars>>)
    /\ WF_vars(ChunkBySizeReturn /\ UNCHANGED <<uploadVars, runVars, uiVars>>)

\* the upload helpers, run on their own
InitUpload == ChunkIdle /\ UploadInit /\ RunIdle /\ UiIdle

NextUpload ==
    \/ UploadStep /\ UNCHANGED <<chunkVars, runVars, uiVars>>
    \/ UploadReturn /\ UNCHANGED <<chunkVars, runVars, uiVars>>

SpecUpload == InitUpload /\ [][NextUpload]_vars

\* the commands run from the command line, one process after the other
InitCmd == ChunkIdle /\ UploadIdle /\ RunInit /\ UiIdle

NextCmd ==
    \/ /\ \E c \in Commands, ds \in Datasets :
             \E base \in (IF c = "load" THEN IdBases ELSE {""}) : Start(1, c, ds, base)
       /\ UNCHANGED <<chunkVars, uploadVars, uiVars>>
    \/ Download(1) /\ UNCHANGED <<chunkVars, uploadVars, uiVars>>
    \/ AuthenticateLocal(1) /\ UNCHANGED <<chunkVars, uploadVars, uiVars>>
    \/ AuthenticateCall(1) /\ UNCHANGED <<chunkVars, uploadVars, uiVars>>
    \/ AuthenticateSettle(1) /\ UNCHANGED <<chunkVars, uploadVars, uiVars>>
    \/ LoadInput(1) /\ UNCHANGED <<chunkVars, uploadVars, uiVars>>
    \/ LoadUploadCall(1) /\ UNCHANGED <<chunkVars, uploadVars, uiVars>>
    \/ LoadUploadSettle(1) /\ UNCHANGED <<chunkVars, uploadVars, uiVars>>
    \/ LoadUploadReturn(1) /\ UNCHANGED <<chunkVars, uploadVars, uiVars>>
    \/ TocCall(1) /\ UNCHANGED <<chunkVars, uploadVars, uiVars>>
    \/ TocSettle(1) /\ UNCHANGED <<chunkVars, uploadVars, uiVars>>
    \/ StubCall(1) /\ UNCHANGED <<chunkVars, uploadVars, uiVars>>
    \/ StubSettle(1) /\ UNCHANGED <<chunkVars, uploadVars, uiVars>>
    \/ StubsReturn(1) /\ UNCHANGED <<chunkVars, uploadVars, uiVars>>
    \/ LinkInvalid(1) /\ UNCHANGED <<chunkVars, uploadVars, uiVars>>
    \/ LinkCall(1) /\ UNCHANGED <<chunkVars, uploadVars, uiVars>>
    \/ LinkSettle(1) /\ UNCHANGED <<chunkVars, uploadVars, uiVars>>
    \/ LinksReturn(1) /\ UNCHANGED <<chunkVars, uploadVars, uiVars>>
    \/ HistoryInvalid(1) /\ UNCHANGED <<chunkVars, uploadVars, uiVars>>
    \/ HistoryCall(1) /\ UNCHANGED <<chunkVars, uploadVars, uiVars>>
    \/ HistorySettle(1) /\ UNCHANGED <<chunkVars, uploadVars, uiVars>>
    \/ LoadResults(1) /\ UNCHANGED <<chunkVars, uploadVars, uiVars>>
    \/ SaveStateOpen(1) /\ UNCHANGED <<chunkVars, uploadVars, uiVars>>
    \/ SaveStateWrite(1) /\ UNCHANGED <<chunkVars, uploadVars, uiVars>>
    \/ LoadState(1) /\ UNCHANGED <<chunkVars, uploadVars, uiVars>>
    \/ DetectCitations(1) /\ UNCHANGED <<chunkVars, uploadVars, uiVars>>
    \/ DetectReturn(1) /\ UNCHANGED <<chunkVars, uploadVars, uiVars>>
    \/ AnnotationCall(1) /\ UNCHANGED <<chunkVars, uploadVars, uiVars>>
    \/ AnnotationSettle(1) /\ UNCHANGED <<chunkVars, uploadVars, uiVars>>
    \/ AnnotateReturn(1) /\ UNCHANGED <<chunkVars, uploadVars, uiVars>>
    \/ FetchCall(1) /\ UNCHANGED <<chunkVars, uploadVars, uiVars>>
    \/ FetchSettle(1) /\ UNCHANGED <<chunkVars, uploadVars, uiVars>>
    \/ ValidateReturn(1) /\ UNCHANGED <<chunkVars, uploadVars, uiVars>>

SpecCmd == InitCmd /\ [][NextCmd]_vars

\* interactive mode: the TerminalApp and the command it runs
InitUI == ChunkIdle /\ UploadIdle /\ UiInit

NextUI ==
    \/ UiAlive /\ (\E p \in Procs : Download(p)) /\ UNCHANGED <<chunkVars, uploadVars, uiVars>>
    \/ UiAlive /\ (\E p \in Procs : AuthenticateLocal(p)) /\ UNCHANGED <<chunkVars, uploadVars, uiVars>>
    \/ UiAlive /\ (\E p \in Procs : AuthenticateCall(p)) /\ UNCHANGED <<chunkVars, uploadVars, uiVars>>
    \/ UiAlive /\ (\E p \in Procs : AuthenticateSettle(p)) /\ UNCHANGED <<chunkVars, uploadVars, uiVars>>
    \/ UiAlive /\ (\E p \in Procs : LoadInput(p)) /\ UNCHANGED <<chunkVars, uploadVars, uiVars>>
    \/ UiAlive /\ (\E p \in Procs : LoadUploadCall(p)) /\ UNCHANGED <<chunkVars, uploadVars, uiVars>>
    \/ UiAlive /\ (\E p \in Procs : LoadUploadSettle(p)) /\ UNCHANGED <<chunkVars, uploadVars, uiVars>>
    \/ UiAlive /\ (\E p \in Procs : LoadUploadReturn(p)) /\ UNCHANGED <<chunkVars, uploadVars, uiVars>>
    \/ UiAlive /\ (\E p \in Procs : TocCall(p)) /\ UNCHANGED <<chunkVars, uploadVars, uiVars>>
    \/ UiAlive /\ (\E p \in Procs : TocSettle(p)) /\ UNCHANGED <<chunkVars, uploadVars, uiVars>>
    \/ UiAlive /\ (\E p \in Procs : StubCall(p)) /\ UNCHANGED <<chunkVars, uploadVars, uiVars>>
    \/ UiAlive /\ (\E p \in Procs : StubSettle(p)) /\ UNCHANGED <<chunkVars, uploadVars, uiVars>>
    \/ UiAlive /\ (\E p \in Procs : StubsReturn(p)) /\ UNCHANGED <<chunkVars, uploadVars, uiVars>>
    \/ UiAlive /\ (\E p \in Procs : LinkInvalid(p)) /\ UNCHANGED <<chunkVars, uploadVars, uiVars>>
    \/ UiAlive /\ (\E p \in Procs : LinkCall(p)) /\ UNCHANGED <<chunkVars, uploadVars, uiVars>>
    \/ UiAlive /\ (\E p \in Procs : LinkSettle(p)) /\ UNCHANGED <<chunkVars, uploadVars, uiVars>>
    \/ UiAlive /\ (\E p \in Procs : LinksReturn(p)) /\ UNCHANGED <<chunkVars, uploadVars, uiVars>>
    \/ UiAlive /\ (\E p \in Procs : HistoryInvalid(p)) /\ UNCHANGED <<chunkVars, uploadVars, uiVars>>
    \/ UiAlive /\ (\E p \in Procs : HistoryCall(p)) /\ UNCHANGED <<chunkVars, uploadVars, uiVars>>
    \/ UiAlive /\ (\E p \in Procs : HistorySettle(p)) /\ UNCHANGED <<chunkVars, uploadVars, uiVars>>
    \/ UiAlive /\ (\E p \in Procs : LoadResults(p)) /\ UNCHANGED <<chunkVars, uploadVars, uiVars>>
    \/ UiAlive /\ (\E p \in Procs : SaveStateOpen(p)) /\ UNCHANGED <<chunkVars, uploadVars, uiVars>>
    \/ UiAlive /\ (\E p \in Procs : SaveStateWrite(p)) /\ UNCHANGED <<chunkVars, uploadVars, uiVars>>
    \/ UiAlive /\ (\E p \in Procs : LoadState(p)) /\ UNCHANGED <<chunkVars, uploadVars, uiVars>>
    \/ UiAlive /\ (\E p \in Procs : DetectCitations(p)) /\ UNCHANGED <<chunkVars, uploadVars, uiVars>>
    \/ UiAlive /\ (\E p \in Procs : DetectReturn(p)) /\ UNCHANGED <<chunkVars, uploadVars, uiVars>>
    \/ UiAlive /\ (\E p \in Procs : AnnotationCall(p)) /\ UNCHANGED <<chunkVars, uploadVars, uiVars>>
    \/ UiAlive /\ (\E p \in Procs : AnnotationSettle(p)) /\ UNCHANGED <<chunkVars, uploadVars, uiVars>>
    \/ UiAlive /\ (\E p \in Procs : AnnotateReturn(p)) /\ UNCHANGED <<chunkVars, uploadVars, uiVars>>
    \/ UiAlive /\ (\E p \in Procs : FetchCall(p)) /\ UNCHANGED <<chunkVars, uploadVars, uiVars>>
    \/ UiAlive /\ (\E p \in Procs : FetchSettle(p)) /\ UNCHANGED <<chunkVars, uploadVars, uiVars>>
    \/ UiAlive /\ (\E p \in Procs : ValidateReturn(p)) /\ UNCHANGED <<chunkVars, uploadVars, uiVars>>
    \/ KeyDown /\ UNCHANGED <<chunkVars, uploadVars>>
    \/ KeyUp /\ UNCHANGED <<chunkVars, uploadVars>>
    \/ KeyQuit /\ UNCHANGED <<chunkVars, uploadVars>>
    \/ ExecuteSelectedBusy /\ UNCHANGED <<chunkVars, uploadVars>>
    \/ ExecuteSelected /\ UNCHANGED <<chunkVars, uploadVars>>
    \/ (\E p \in Procs : CommandCompleted(p)) /\ UNCHANGED <<chunkVars, uploadVars>>

SpecUI == InitUI /\ [][NextUI]_vars

\* two load runs for the same dataset at the same time
InitRace == ChunkIdle /\ UploadIdle /\ RaceInit /\ UiIdle

NextRace ==
    \/ (\E p \in Procs : StartRace(p)) /\ UNCHANGED <<chunkVars, uploadVars, uiVars>>
    \/ (\E p \in Procs : AuthenticateLocal(p) /\ Untroubled(p)) /\ UNCHANGED <<chunkVars, uploadVars, uiVars>>
    \/ (\E p \in Procs : LoadInput(p) /\ Untroubled(p) /\ SameInput(p)) /\ UNCHANGED <<chunkVars, uploadVars, uiVars>>
    \/ (\E p \in Procs : LoadUploadCall(p)) /\ UNCHANGED <<chunkVars, uploadVars, uiVars>>
    \/ (\E p \in Procs : LoadUploadSettle(p)) /\ UNCHANGED <<chunkVars, uploadVars, uiVars>>
    \/ (\E p \in Procs : LoadUploadReturn(p)) /\ UNCHANGED <<chunkVars, uploadVars, uiVars>>
    \/ (\E p \in Procs : TocCall(p)) /\ UNCHANGED <<chunkVars, uploadVars, uiVars>>
    \/ (\E p \in Procs : TocSettle(p) /\ Untroubled(p)) /\ UNCHANGED <<chunkVars, uploadVars, uiVars>>
    \/ (\E p \in Procs : StubCall(p)) /\ UNCHANGED <<chunkVars, uploadVars, uiVars>>
    \/ (\E p \in Procs : StubSettle(p) /\ Untroubled(p)) /\ UNCHANGED <<chunkVars, uploadVars, uiVars>>
    \/ (\E p \in Procs : StubsReturn(p)) /\ UNCHANGED <<chunkVars, uploadVars, uiVars>>
    \/ (\E p \in Procs : LinkCall(p)) /\ UNCHANGED <<chunkVars, uploadVars, uiVars>>
    \/ (\E p \in Procs : LinkSettle(p) /\ Untroubled(p)) /\ UNCHANGED <<chunkVars, uploadVars, uiVars>>
    \/ (\E p \in Procs : LinksReturn(p)) /\ UNCHANGED <<chunkVars, uploadVars, uiVars>>
    \/ (\E p \in Procs : HistoryCall(p)) /\ UNCHANGED <<chunkVars, uploadVars, uiVars>>
    \/ (\E p \in Procs : HistorySettle(p) /\ Untroubled(p)) /\ UNCHANGED <<chunkVars, uploadVars, uiVars>>
    \/ (\E p \in Procs : LoadResults(p) /\ Untroubled(p)) /\ UNCHANGED <<chunkVars, uploadVars, uiVars>>
    \/ (\E p \in Procs : SaveStateOpen(p)) /\ UNCHANGED <<chunkVars, uploadVars, uiVars>>
    \/ (\E p \in Procs : SaveStateWrite(p)) /\ UNCHANGED <<chunkVars, uploadVars, uiVars>>

SpecRace == InitRace /\ [][NextRace]_vars

---------------------------------------------------------------------------
(* Notions the properties are stated with. They are defined from the text *)
(* alone, not from the chunkers' loops.                                   *)

\* the contents of a chunk list, concatenated in order
RECURSIVE ConcatContents(_)
ConcatContents(list) ==
    IF list = <<>> THEN <<>> ELSE Head(list).content \o ConcatContents(Tail(list))

\* the non-whitespace characters of s, in order
NonWhitespace(s) == SelectSeq(s, LAMBDA c : ~IsWs(c))

HasNonWhitespace(s) == \E k \in 1..Len(s) : ~IsWs(s[k])

\* s[a .. b-1] is made of exactly n newlines, each "\n" or "\r\n"
RECURSIVE IsNewlines(_, _, _, _)
IsNewlines(s, a, b, n) ==
    IF n = 0 THEN a = b
    ELSE /\ a < b
         /\ UnitLen(s, a) > 0
         /\ IsNewlines(s, a + UnitLen(s, a), b, n - 1)

\* a run of two or more newlines occupies s[a .. b-1]
IsNewlineRun(s, a, b) == \E n \in 2..(b - a) : IsNewlines(s, a, b, n)

\* the text holds a run of two or more newlines
HasNewlineRun(s) ==
    \E a \in 0..Len(s) : UnitLen(s, a) > 0 /\ UnitLen(s, a + UnitLen(s, a)) > 0

\* offset b is the position immediately after a run of two or more newlines:
\* two newlines end at b and no further newline starts at b
IsAfterNewlineRun(s, b) ==
    /\ UnitLen(s, b) = 0
    /\ \E m \in {b - 2, b - 1} : \E a \in {m - 2, m - 1} :
          /\ a >= 0
          /\ UnitLen(s, a) = m - a
          /\ UnitLen(s, m) = b - m

\* the paragraph boundaries of a text, with offsets 0 and length as sentinels
ParagraphBoundaries(s) ==
    {0, Len(s)} \cup { b \in 1..Len(s) : IsAfterNewlineRun(s, b) }

\* the number stated by a sequence of decimal digits
RECURSIVE DecimalValue(_)
DecimalValue(d) ==
    IF d = <<>> THEN 0
    ELSE 10 * DecimalValue(SubSeq(d, 1, Len(d) - 1))
         + (CHOOSE v \in 0..9 : DigitChar(v) = d[Len(d)])

\* title is prefix, one space, and the decimal digits of n
IsTitleOf(title, prefix, n) ==
    LET p == Len(prefix)
    IN  /\ Len(title) >= p + 2
        /\ SubSeq(title, 1, p) = prefix
        /\ title[p + 1] = " "
        /\ \A k \in (p + 2)..Len(title) : \E v \in 0..9 : title[k] = DigitChar(v)
        /\ title[p + 2] # "0"
        /\ DecimalValue(SubSeq(title, p + 2, Len(title))) = n

Returned == pc = "done"

---------------------------------------------------------------------------
\* C1: the chunks returned by chunkText and by chunkBySize carry the part
\* numbers 1, 2, ..., n in list order, and each chunk's title is the prefix,
\* one space and the chunk's part number.
C1_PartNumbersSequential ==
    Returned =>
        \A k \in 1..Len(chunks) :
            /\ chunks[k].partNumber = k
            /\ IsTitleOf(chunks[k].title, titlePrefix, k)

\* C1 witness: chunkText returned at least one chunk after it had dropped an
\* empty slice that came before an emitted one.
C1_Witness ==
    /\ Returned
    /\ fn = "chunkText"
    /\ \E a \in 1..Len(cuts), b \in 1..Len(cuts) :
          a < b /\ ~cuts[a].emitted /\ cuts[b].emitted

---------------------------------------------------------------------------
\* the text with the newline run that ends at each chosen break point removed,
\* then trimmed
WithoutSeparators(s, breaks) ==
    LET consumed(k) == \E b \in breaks : \E a \in 0..k :
                          /\ k < b
                          /\ IsNewlineRun(s, a, b)
                          /\ \A a2 \in 0..(a - 1) : ~IsNewlineRun(s, a2, b)
        keep == { k \in 0..(Len(s) - 1) : ~consumed(k) }
        F[k \in 0..Len(s)] ==
            IF k = 0 THEN <<>>
            ELSE IF (k - 1) \in keep THEN Append(F[k - 1], s[k]) ELSE F[k - 1]
    IN  Trim(F[Len(s)])

\* the text with every whitespace character removed that is joined to a cut
\* point (a chosen break point, or either end of the text) by whitespace only
WithoutBoundaryWhitespace(s, breaks) ==
    LET points == breaks \cup {0, Len(s)}
        allWs(a, b) == \A j \in a..(b - 1) : IsWs(s[j + 1])
        dropped(k) == \E c \in points :
                          IF c <= k THEN allWs(c, k + 1) ELSE allWs(k, c)
        F[k \in 0..Len(s)] ==
            IF k = 0 THEN <<>>
            ELSE IF dropped(k - 1) THEN F[k - 1] ELSE Append(F[k - 1], s[k])
    IN  F[Len(s)]

ChosenBreaks == { cuts[k].bestBreak : k \in 1..Len(cuts) }

\* C2 as stated: the concatenated contents of chunkText's chunks are the trimmed
\* text minus only the newline runs consumed at the chunk boundaries.
C2_Original ==
    (Returned /\ fn = "chunkText" /\ targetChunkSize >= 1) =>
        ConcatContents(chunks) = WithoutSeparators(text, ChosenBreaks)

\* C2 as amended: the concatenated contents of chunkText's chunks are the text
\* minus only the whitespace that adjoins a chunk boundary or an end of the text
\* (the newline run and any whitespace directly before or after it); every
\* non-whitespace character appears exactly once and in the original order.
C2_ConcatMinusBoundaryWhitespace ==
    (Returned /\ fn = "chunkText") =>
        /\ ConcatContents(chunks) = WithoutBoundaryWhitespace(text, ChosenBreaks)
        /\ NonWhitespace(ConcatContents(chunks)) = NonWhitespace(text)

\* C2 witness: chunkText returned two or more chunks of a text in which a space
\* stands directly before a newline run, and a chunk holds interior whitespace.
C2_Witness ==
    /\ Returned
    /\ fn = "chunkText"
    /\ Len(chunks) >= 2
    /\ \E k \in 1..Len(cuts) : \E a \in 1..Len(text) :
          /\ IsNewlineRun(text, a, cuts[k].bestBreak)
          /\ text[a] = " "
    /\ \E k \in 1..Len(chunks) : \E j \in 1..Len(chunks[k].content) :
          IsWs(chunks[k].content[j])

---------------------------------------------------------------------------
\* C3 as stated: a text without a run of two or more newlines gives exactly one
\* chunk, whose content is the trimmed text (stated for the positive target
\* sizes).
C3_Original ==
    (Returned /\ fn = "chunkText" /\ targetChunkSize >= 1 /\ ~HasNewlineRun(text)) =>
        /\ Len(chunks) = 1
        /\ chunks[1].content = Trim(text)

\* C3 as amended: a text that holds a non-whitespace character and no run of two
\* or more newlines gives exactly one chunk, whose content is the trimmed text,
\* for every target size; a text of whitespace only (the empty text included)
\* gives no chunk.
C3_NoBreakOneChunk ==
    (Returned /\ fn = "chunkText" /\ ~HasNewlineRun(text)) =>
        IF HasNonWhitespace(text)
        THEN Len(chunks) = 1 /\ chunks[1].content = Trim(text)
        ELSE chunks = <<>>

\* C3 witness: chunkText returned for a text without a newline run that is
\* longer than a positive target size and holds a single newline.
C3_Witness ==
    /\ Returned
    /\ fn = "chunkText"
    /\ ~HasNewlineRun(text)
    /\ HasNonWhitespace(text)
    /\ targetChunkSize > 0
    /\ Len(text) > targetChunkSize
    /\ \E k \in 1..Len(text) : text[k] = "\n"

---------------------------------------------------------------------------
\* C4 as stated: a text shorter than the target size gives exactly one chunk.
C4_Original ==
    (Returned /\ fn = "chunkText" /\ Len(text) < targetChunkSize) =>
        Len(chunks) = 1

\* C4 as amended: a text that holds a non-whitespace character and is shorter
\* than the target size gives exactly one chunk, however many paragraph breaks
\* it holds; a text of whitespace only (the empty text included) gives no chunk.
C4_ShortTextOneChunk ==
    (Returned /\ fn = "chunkText" /\ Len(text) < targetChunkSize) =>
        IF HasNonWhitespace(text) THEN Len(chunks) = 1 ELSE chunks = <<>>

\* C4 witness: chunkText returned for a text shorter than the target size that
\* holds two paragraph breaks.
C4_Witness ==
    /\ Returned
    /\ fn = "chunkText"
    /\ Len(text) < targetChunkSize
    /\ HasNonWhitespace(text)
    /\ Cardinality(ParagraphBoundaries(text) \ {0, Len(text)}) >= 2

---------------------------------------------------------------------------
\* C5: for the empty string chunkText and chunkBySize return an empty chunk
\* list, for every target size: no chunk is ever pushed for it.
C5_EmptyTextNoChunks ==
    text = <<>> => chunks = <<>>

\* C5 witness: chunkBySize returned for the empty string with chunk size 0.
C5_Witness ==
    /\ Returned
    /\ fn = "chunkBySize"
    /\ text = <<>>
    /\ targetChunkSize = 0

---------------------------------------------------------------------------
---------------------------------------------------------------------------
\* C7: chunkText never splits inside a paragraph: every offset at which it
\* cuts is a paragraph boundary or the end of the text, also when a paragraph
\* is longer than the target size; "AAAA\n\nBBBB\n\nCCCC" with target size 6
\* is cut after "AAAA" and gives the chunks "AAAA", "BBBB", "CCCC".
C7_CutsAtBoundaries ==
    fn = "chunkText" =>
        /\ LET boundaries == ParagraphBoundaries(text)
           IN  \A k \in 1..Len(cuts) : cuts[k].bestBreak \in boundaries
        /\ (Returned /\ text = ExampleText /\ targetChunkSize = 6) =>
              /\ cuts[1].bestBreak = 6
              /\ [ k \in 1..Len(chunks) |-> chunks[k].content ]
                    = << <<"A", "A", "A", "A">>, <<"B", "B", "B", "B">>,
                         <<"C", "C", "C", "C">> >>

\* C7 witness: chunkText returned two or more chunks, one of them longer than
\* the positive target size.
C7_Witness ==
    /\ Returned
    /\ fn = "chunkText"
    /\ targetChunkSize > 0
    /\ Len(chunks) >= 2
    /\ \E k \in 1..Len(chunks) : Len(chunks[k].content) > targetChunkSize

---------------------------------------------------------------------------
\* C8: chunkBySize on a text of length L with chunk size S >= 1 returns
\* ceil(L / S) chunks numbered from 1; every chunk but the last has S
\* characters and the last has L - S * (n - 1); the contents concatenated are
\* the input, untrimmed; L = 100, S = 30 gives the lengths 30, 30, 30, 10.
C8_FixedSizeChunks ==
    (Returned /\ fn = "chunkBySize" /\ targetChunkSize >= 1) =>
        LET L == Len(text)
            S == targetChunkSize
            n == Len(chunks)
        IN  /\ n = (L + S - 1) \div S
            /\ \A k \in 1..n :
                  /\ chunks[k].partNumber = k
                  /\ Len(chunks[k].content) = IF k < n THEN S ELSE L - S * (n - 1)
            /\ ConcatContents(chunks) = text
            /\ (L = 100 /\ S = 30) =>
                  [ k \in 1..n |-> Len(chunks[k].content) ] = <<30, 30, 30, 10>>

\* C8 witness: chunkBySize returned for the 100-character text with size 30.
C8_Witness ==
    /\ Returned
    /\ fn = "chunkBySize"
    /\ Len(text) = 100
    /\ targetChunkSize = 30
    /\ Len(chunks) = 4

---------------------------------------------------------------------------
\* the offset of the leftmost occurrence of w in s at or after offset from,
\* or -1 when there is none
LeftmostOccurrence(s, w, from) ==
    LET at == { k \in from..(Len(s) - Len(w)) : SubSeq(s, k + 1, k + Len(w)) = w }
    IN  IF at = {} THEN -1 ELSE CHOOSE k \in at : \A j \in at : k <= j

\* the contents occur in s as substrings, in order and without overlap, from
\* offset from on
RECURSIVE OccurInOrder(_, _, _)
OccurInOrder(s, contents, from) ==
    IF contents = <<>> THEN TRUE
    ELSE LET k == LeftmostOccurrence(s, Head(contents), from)
         IN  /\ k >= 0
             /\ OccurInOrder(s, Tail(contents), k + Len(Head(contents)))

\* C9: every chunk that chunkText emits has a content that is a contiguous,
\* unmodified substring of the text, is not empty and neither starts nor ends
\* with whitespace; the substrings of successive chunks occur in the text in
\* order and do not overlap.
C9_ContentsAreSubstrings ==
    fn = "chunkText" =>
        /\ \A k \in 1..Len(chunks) :
              /\ chunks[k].content # <<>>
              /\ ~IsWs(chunks[k].content[1])
              /\ ~IsWs(chunks[k].content[Len(chunks[k].content)])
        /\ OccurInOrder(text, [ k \in 1..Len(chunks) |-> chunks[k].content ], 0)

\* C9 witness: chunkText returned two or more chunks, and for one of them it
\* skipped whitespace after the previous cut and trimmed whitespace at its end.
C9_Witness ==
    /\ Returned
    /\ fn = "chunkText"
    /\ Len(chunks) >= 2
    /\ \E k \in 1..Len(cuts) :
          /\ cuts[k].emitted
          /\ cuts[k].startPos > 0
          /\ cuts[k].skipped > cuts[k].startPos
          /\ ~IsWs(text[cuts[k].bestBreak])
    /\ \E k \in 1..Len(cuts) :
          /\ cuts[k].emitted
          /\ IsWs(text[cuts[k].bestBreak])
---------------------------------------------------------------------------
Succeeded(call) == call.outcome.kind = "ok"
Failed(call) == call.outcome.kind = "throw"

\* the entries of list at the positions where the call of log had this outcome
RECURSIVE Pick(_, _, _)
Pick(list, log, kind) ==
    IF list = <<>> \/ log = <<>> THEN <<>>
    ELSE (IF Head(log).outcome.kind = kind THEN <<Head(list)>> ELSE <<>>)
            \o Pick(Tail(list), Tail(log), kind)

\* C10: uploadChunks and uploadDocuments attempt every input item exactly
\* once, in input order; an item whose createResource call throws is recorded
\* in failed and the loop goes on with the next item; on return ids and
\* uploaded have one length, ids[k] is the id returned for uploaded[k], the
\* successes keep their input order, and ids and failed together count the
\* input items; the helper never throws because of a failed item.
C10_UploadAttemptsEveryItem ==
    /\ upPc # "thrown"
    /\ Len(calls) = upI
    /\ \A k \in 1..Len(calls) :
          /\ calls[k].index = k - 1
          /\ calls[k].request.name = items[k].title
          /\ calls[k].request.file = items[k].content
    /\ upPc = "done" =>
          /\ Len(calls) = Len(items)
          /\ uploaded = Pick(items, calls, "ok")
          /\ ids = [ k \in 1..Len(ids) |-> Pick(calls, calls, "ok")[k].outcome.id ]
          /\ [ k \in 1..Len(failed) |-> failed[k].title ]
                = [ k \in 1..Len(failed) |-> Pick(items, calls, "throw")[k].title ]
          /\ Len(ids) = Len(uploaded)
          /\ Len(failed) = Len(Pick(items, calls, "throw"))
          /\ Len(ids) + Len(failed) = Len(items)

\* C10 witness: a helper returned after a call that threw between two calls
\* that succeeded.
C10_Witness ==
    /\ upPc = "done"
    /\ Len(calls) >= 3
    /\ Succeeded(calls[1])
    /\ Failed(calls[2])
    /\ Succeeded(calls[3])
    /\ items[1] # items[3]

---------------------------------------------------------------------------
(* Notions the properties of the commands are stated with. *)

\* the operation recorded as entry e of a trace failed
Thrown(e) == e.outcome.kind = "throw"

\* the failure recorded as entry n ended the run of r: nothing was attempted
\* after it, the error was printed and the process exited with code 1
Aborted(r, n) ==
    /\ n = Len(r.trace)
    /\ r.pc = "exited"
    /\ r.exitCode = 1
    /\ r.errorPrinted

\* the positions at which a failure is caught next to the call: the upload
\* helpers, linkReferences, showDocumentHistory and validateResources
CatchingSites == {"upload", "links", "history", "fetch"}

---------------------------------------------------------------------------
(* C11 (as stated in the specification): apart from the upload helpers, any *)
(* operation that fails during a load, annotate or validate run aborts the *)
(* run: nothing runs after it, the error is printed and the exit code is   *)
(* nonzero.                                                                *)
C11_Original ==
    \A p \in Procs :
        \A n \in 1..Len(proc[p].trace) :
            (Thrown(proc[p].trace[n]) /\ proc[p].trace[n].site # "upload")
                => Aborted(proc[p], n)

(* C11 (amended): a failed authentication, text or document load, state    *)
(* load, table-of-contents creation, stub creation, citation detection or  *)
(* annotation creation aborts the run: nothing runs after it, the error is *)
(* printed and the exit code is 1.  (A failed link update, history query   *)
(* or resource fetch is caught next to the call, like a failed upload.)    *)
C11_FailureAbortsRun ==
    \A p \in Procs :
        \A n \in 1..Len(proc[p].trace) :
            (Thrown(proc[p].trace[n]) /\ proc[p].trace[n].site \notin CatchingSites)
                => Aborted(proc[p], n)

\* a stub creation failed after a chunk and the table of contents had been
\* uploaded, and the load run ended there with exit code 1
C11_Witness ==
    \E n \in 1..Len(proc[1].trace) :
        /\ n > 3
        /\ proc[1].trace[n].op = "createAnnotation"
        /\ proc[1].trace[n].site = "stubs"
        /\ Thrown(proc[1].trace[n])
        /\ proc[1].cmd = "load"
        /\ proc[1].exitCode = 1

---------------------------------------------------------------------------
\* the file a completed saveState of the state full leaves behind
SavedFile(saved) ==
    IF IsSome(saved)
    THEN [ exists |-> TRUE, data |-> JsonStringify(Get(saved)) ]
    ELSE NoFile

\* the reference read back from the state file is the reference ref
SameReference(read, ref) ==
    /\ Prop(read, "text") = Some(ref.text)
    /\ Prop(read, "start") = Some(ref.start)
    /\ Prop(read, "end") = Some(ref.end)
    /\ Prop(read, "documentId") = Some(ref.documentId)
    /\ Prop(read, "annotationId") = ref.annotationId

\* the state read back from the state file holds the values of full and
\* nothing else
SameState(read, full) ==
    /\ DOMAIN read \subseteq {"dataset", "tocId", "chunkIds", "references", "formattedText"}
    /\ Prop(read, "dataset") = Some(full.dataset)
    /\ Prop(read, "tocId") = full.tocId
    /\ Prop(read, "chunkIds") = full.chunkIds
    /\ Prop(read, "formattedText") = Some(full.formattedText)
    /\ IsSome(Prop(read, "references")) = IsSome(full.references)
    /\ IsSome(full.references) =>
          /\ Len(read["references"]) = Len(Get(full.references))
          /\ \A n \in 1..Len(Get(full.references)) :
                SameReference(read["references"][n], Get(full.references)[n])

\* the dataset whose name is recorded in the state full
SavedDataset(full) == CHOOSE ds \in Datasets : ds.name = full.dataset

\* outside of writeFileSync the state file is what the last saveState wrote,
\* and loadState for that dataset returns the values that were saved
StateFileIsLastSaved ==
    (\A p \in Procs : ~At(p, "write")) =>
        /\ stateFile = SavedFile(lastSaved)
        /\ IsSome(lastSaved) =>
              LET read == loadState(SavedDataset(Get(lastSaved)), stateFile)
              IN  IsSome(read) /\ SameState(Get(read), Get(lastSaved))
        /\ \A p \in Procs :
              (proc[p].cmd \in {"annotate", "validate"} /\ IsSome(proc[p].state))
                  => SameState(Get(proc[p].state), Get(lastSaved))

\* a step that changes the state file is a step of saveState in a load run
OnlyLoadWrites ==
    stateFile' # stateFile =>
        \E p \in Procs : proc[p].cmd = "load" /\ proc[p].pc \in {"save", "write"}

(* C12: after any sequence of download, load, annotate and validate runs    *)
(* the state file holds exactly what the most recent load run that reached *)
(* saveState wrote (dataset name, tocId, chunkIds, references and          *)
(* formattedText, nothing carried over from earlier runs); loadState       *)
(* returns those values unchanged; download, annotate and validate never   *)
(* write the state file.                                                   *)
C12_StateFileHoldsLastLoad == []StateFileIsLastSaved /\ [][OnlyLoadWrites]_vars

\* a load run has replaced a longer state file of an earlier run, and its own
\* state is what the file holds now
C12_Witness ==
    /\ proc[1].cmd = "load"
    /\ proc[1].exitCode = 0
    /\ lastSaved = Some(FullState(proc[1]))
    /\ \E n \in 1..Len(proc[1].trace) :
          /\ proc[1].trace[n].op = "saveState"
          /\ Len(proc[1].trace[n].arg) > Len(stateFile.data)

---------------------------------------------------------------------------
\* the calls and awaited operations of a run made at one position, in the
\* order in which they were made
AtSite(r, site) == SelectSeq(r.trace, LAMBDA e : e.site = site)

\* the place of x in a list without repetitions
IndexIn(list, x) == CHOOSE n \in 1..Len(list) : list[n] = x

\* the stages of the commands, in the order of the program text; the calls
\* for the citations of a chunk belong to the stage that scans the chunks
StageOf(site) ==
    CASE site \in {"download", "auth"} -> 1
      [] site \in {"loadInput", "loadState"} -> 2
      [] site \in {"upload", "detect", "annotate", "fetch"} -> 3
      [] site = "toc" -> 4
      [] site = "stubs" -> 5
      [] site = "links" -> 6
      [] site = "history" -> 7
      [] site = "save" -> 8

\* at most one request is pending, and it is the one made last
OneOutstanding(r) ==
    /\ Cardinality(r.inFlight) <= 1
    /\ \A n \in 1..Len(r.trace) :
          r.trace[n].outcome = Pending => (n = Len(r.trace) /\ r.inFlight = {n})

\* the number of chunks given to the citation detector before entry n
ChunksScanned(r, n) ==
    Cardinality({ m \in 1..(n - 1) : r.trace[m].op = "detectCitations" })

\* uploads, stubs, links and citation annotations follow their lists
InListOrder(r) ==
    /\ LET made == AtSite(r, "upload")
       IN  /\ Len(made) <= Len(r.chunks)
           /\ \A n \in 1..Len(made) :
                 made[n].arg = UploadRequest(UploadHelper(r.dataset), r.chunks[n])
    /\ LET made == AtSite(r, "stubs")
       IN  \A n \in 1..Len(made) :
             /\ n <= Len(Refs(r))
             /\ made[n].arg = StubRequest(Get(r.tocId), Refs(r)[n])
    /\ LET made == AtSite(r, "links")
       IN  \A m, n \in 1..Len(made) :
             m < n => IndexIn(r.chunkIds, made[m].arg.operations[1].item.source)
                        < IndexIn(r.chunkIds, made[n].arg.operations[1].item.source)
    /\ \A n \in 1..Len(r.trace) :
          r.trace[n].site = "annotate" =>
              r.trace[n].arg.resource =
                  ElementAt(Get(r.state)["chunkIds"], ChunksScanned(r, n) - 1)

\* nothing of an earlier stage happens after something of a later stage
StagesInOrder(r) ==
    \A m, n \in 1..Len(r.trace) :
        m < n => StageOf(r.trace[m].site) <= StageOf(r.trace[n].site)

(* C13: within one command run at most one backend request is outstanding: *)
(* each chunk upload, stub creation, link update and citation annotation   *)
(* is awaited before the next is issued, items are processed in list       *)
(* order, and a stage starts only after the previous stage has finished.   *)
C13_OneRequestAtATime ==
    \A p \in Procs :
        /\ OneOutstanding(proc[p])
        /\ InListOrder(proc[p])
        /\ StagesInOrder(proc[p])

\* a load run that has uploaded two chunks and made the table of contents and
\* two stubs waits for the update of its second link
C13_Witness ==
    /\ proc[1].cmd = "load"
    /\ Len(AtSite(proc[1], "upload")) = 2
    /\ Len(AtSite(proc[1], "stubs")) = 2
    /\ Len(AtSite(proc[1], "links")) = 2
    /\ proc[1].inFlight = {Len(proc[1].trace)}

---------------------------------------------------------------------------
\* the places in the trace at which the citation detector was called
Detections(r) == { d \in 1..Len(r.trace) : r.trace[d].op = "detectCitations" }

\* the last call of the citation detector before entry n
LastDetection(r, n) ==
    CHOOSE d \in Detections(r) : d < n /\ \A e \in Detections(r) : e < n => e <= d

\* the annotate run has printed its total
TotalReported(r) ==
    /\ r.cmd = "annotate"
    /\ r.dataset.detectCitations
    /\ r.pc \in {"history", "finish"} \/ (r.pc = "exited" /\ r.exitCode = 0)

\* the sum of the numbers of matches the detector returned
RECURSIVE MatchCount(_, _)
MatchCount(r, n) ==
    IF n = 0 THEN 0
    ELSE MatchCount(r, n - 1)
           + (IF r.trace[n].op = "detectCitations" /\ r.trace[n].outcome.kind = "ok"
              THEN Len(r.trace[n].outcome.citations) ELSE 0)

\* the call made as entry n carries match j of the detection d before it
CarriesMatch(r, n) ==
    /\ \E d \in Detections(r) : d < n
    /\ LET d == LastDetection(r, n)
           j == n - d
       IN  /\ r.trace[d].outcome.kind = "ok"
           /\ j <= Len(r.trace[d].outcome.citations)
           /\ r.trace[n].op = "createAnnotation"
           /\ r.trace[n].arg.start = r.trace[d].outcome.citations[j].start
           /\ r.trace[n].arg.end = r.trace[d].outcome.citations[j].end
           /\ r.trace[n].arg.exact = r.trace[d].outcome.citations[j].text

\* the n-th call of the detector was given the content of chunk n
DetectsInChunkOrder(r) ==
    \A d \in Detections(r) :
        LET n == Cardinality({ e \in Detections(r) : e <= d })
        IN  n <= Len(r.chunks) /\ r.trace[d].arg = r.chunks[n].content

(* C14: an annotate run makes exactly one createAnnotation call per match   *)
(* the citation detector returned, in chunk order and then detector order, *)
(* each with the start, end and text of its match; a chunk without matches *)
(* causes no call; the total reported is the sum of the match counts over  *)
(* all chunks.                                                             *)
C14_OneAnnotationPerMatch ==
    \A p \in Procs :
        LET r == proc[p]
        IN  /\ DetectsInChunkOrder(r)
            /\ \A n \in 1..Len(r.trace) :
                  r.trace[n].site = "annotate" => CarriesMatch(r, n)
            /\ TotalReported(r) =>
                  /\ Cardinality(Detections(r)) = Len(r.chunks)
                  /\ \A d \in Detections(r) :
                        \A j \in 1..Len(r.trace[d].outcome.citations) :
                            /\ d + j <= Len(r.trace)
                            /\ r.trace[d + j].site = "annotate"
                  /\ Len(AtSite(r, "annotate")) = MatchCount(r, Len(r.trace))
                  /\ r.totalAnnotations = MatchCount(r, Len(r.trace))

\* an annotate run over two chunks, the first with two matches and the second
\* with none, has reported a total of two
C14_Witness ==
    /\ TotalReported(proc[1])
    /\ Len(proc[1].chunks) = 2
    /\ proc[1].totalAnnotations = 2
    /\ \E d \in Detections(proc[1]) :
          /\ Len(proc[1].trace[d].outcome.citations) = 2
          /\ \E e \in Detections(proc[1]) :
                e = d + 3 /\ proc[1].trace[e].outcome.citations = <<>>

---------------------------------------------------------------------------
\* the backend calls that need a credential
CredentialedOps ==
    {"createResource", "createAnnotation", "updateAnnotationBody",
     "getResourceEvents", "getResourceRepresentation"}

\* the attempts to authenticate recorded in the trace
AuthAttempts(r) ==
    { n \in 1..Len(r.trace) : r.trace[n].op \in {"authenticate", "authenticatePassword"} }

(* C15: in every load, annotate and validate run authentication is a single *)
(* step before everything else: no createResource, createAnnotation,       *)
(* updateAnnotationBody, getResourceEvents or getResourceRepresentation    *)
(* call is made unless authenticate has returned a credential in that run, *)
(* and if authenticate throws no such call is ever made.                   *)
C15_AuthenticateFirst ==
    \A p \in Procs :
        LET r == proc[p]
        IN  /\ Cardinality(AuthAttempts(r)) <= 1
            /\ \A n \in AuthAttempts(r) : n = 1
            /\ \A n \in 1..Len(r.trace) :
                  r.trace[n].op \in CredentialedOps =>
                      /\ IsSome(r.auth)
                      /\ \A m \in AuthAttempts(r) : r.trace[m].outcome.kind = "ok"
            /\ (\E n \in AuthAttempts(r) : Thrown(r.trace[n])) =>
                  /\ Len(r.trace) = 1
                  /\ ~IsSome(r.auth)
                  /\ r.pc = "exited"

\* a load run whose password authentication succeeded has uploaded a chunk
C15_Witness ==
    /\ proc[1].cmd = "load"
    /\ Len(proc[1].trace) >= 3
    /\ proc[1].trace[1].op = "authenticatePassword"
    /\ proc[1].trace[1].outcome.kind = "ok"
    /\ proc[1].trace[3].op = "createResource"
    /\ proc[1].trace[3].outcome.kind = "ok"

---------------------------------------------------------------------------
\* the dataset name recorded in the state file, if the file holds one
RecordedDataset(file) ==
    IF file.exists /\ JsonParse(file.data).ok
    THEN Prop(JsonParse(file.data).value, "dataset")
    ELSE None

\* the state file is missing or is that of another dataset
NoStateFor(ds, file) == ~file.exists \/ RecordedDataset(file) # Some(ds.name)

\* the calls that act on the resources named in the state
StateOps == {"createAnnotation", "getResourceRepresentation"}

(* C18: annotate and validate act only on state produced by a load of the  *)
(* same dataset: if the state file does not exist, or the dataset name     *)
(* recorded in it differs from the requested dataset, the command exits    *)
(* with a nonzero code and makes no createAnnotation or                    *)
(* getResourceRepresentation call; hence every annotation created by       *)
(* annotate is preceded by a load run of that dataset that reached         *)
(* saveState.                                                              *)
C18_OnlyStateOfSameDataset ==
    \A p \in Procs :
        LET r == proc[p]
        IN  r.cmd \in {"annotate", "validate"} =>
              /\ NoStateFor(r.dataset, stateFile) =>
                    /\ \A n \in 1..Len(r.trace) : r.trace[n].op \notin StateOps
                    /\ r.pc \notin {"auth", "loadState"} =>
                          (r.pc = "exited" /\ r.exitCode = 1 /\ r.errorPrinted)
              /\ (\E n \in 1..Len(r.trace) : r.trace[n].op \in StateOps) =>
                    /\ IsSome(lastSaved)
                    /\ Get(lastSaved).dataset = r.dataset.name
                    /\ SameState(Get(r.state), Get(lastSaved))

\* an annotate run found the state file of another dataset and ended with
\* exit code 1 when loadState threw
C18_Witness ==
    /\ proc[1].cmd = "annotate"
    /\ proc[1].dataset.detectCitations
    /\ stateFile.exists
    /\ NoStateFor(proc[1].dataset, stateFile)
    /\ proc[1].exitCode = 1
    /\ Len(proc[1].trace) >= 1
    /\ proc[1].trace[Len(proc[1].trace)].op = "loadState"
    /\ Thrown(proc[1].trace[Len(proc[1].trace)])

---------------------------------------------------------------------------
\* the stub request has a tag body and no link target
TagBodyOnly(request) ==
    /\ request.body # <<>>
    /\ \A n \in 1..Len(request.body) :
          request.body[n].type = "TextualBody" /\ request.body[n].purpose = "tagging"

\* the link update e is the one for reference n: it is addressed to the
\* annotation the stub call for reference n returned, under the table of
\* contents, and adds the document of reference n
LinksReference(r, e, n) ==
    LET stubs == AtSite(r, "stubs")
    IN  /\ n <= Len(stubs)
        /\ stubs[n].outcome.kind = "ok"
        /\ stubs[n].arg = StubRequest(Get(r.tocId), Refs(r)[n])
        /\ Refs(r)[n].annotationId = Some(stubs[n].outcome.id)
        /\ Refs(r)[n].documentId = r.chunkIds[n]
        /\ e.arg.annotation =
              Get(r.tocId) \o <<"/annotations/">>
                \o <<stubs[n].outcome.id[Len(stubs[n].outcome.id)]>>
        /\ e.arg.resourceId = Get(r.tocId)
        /\ Len(e.arg.operations) = 1
        /\ e.arg.operations[1].op = "add"
        /\ e.arg.operations[1].item.type = "SpecificResource"
        /\ e.arg.operations[1].item.source = Refs(r)[n].documentId

(* C20: for every table-of-contents reference the stub annotation (tag body *)
(* only, no link target) is created before its link is added; all stubs   *)
(* are created before the first link update; each link update is addressed *)
(* to the annotation returned when the stub of that same reference was     *)
(* created and adds the documentId of that reference as linked resource.   *)
C20_StubsBeforeLinks ==
    \A p \in Procs :
        LET r == proc[p]
            stubs == AtSite(r, "stubs")
            links == AtSite(r, "links")
        IN  /\ \A n \in 1..Len(stubs) : TagBodyOnly(stubs[n].arg)
            /\ \A m, n \in 1..Len(r.trace) :
                  (r.trace[m].site = "links" /\ r.trace[n].site = "stubs") => n < m
            /\ links # <<>> =>
                  /\ Len(stubs) = Len(Refs(r))
                  /\ \A n \in 1..Len(stubs) : stubs[n].outcome.kind = "ok"
            /\ \A k \in 1..Len(links) :
                  /\ links[k].op = "updateAnnotationBody"
                  /\ \E n \in 1..Len(Refs(r)) : LinksReference(r, links[k], n)
            /\ \A j, k \in 1..Len(links) :
                  j # k => links[j].arg.annotation # links[k].arg.annotation

\* a load run has created the stubs of two references and then linked both
C20_Witness ==
    /\ proc[1].cmd = "load"
    /\ Len(AtSite(proc[1], "stubs")) = 2
    /\ Len(AtSite(proc[1], "links")) = 2
    /\ proc[1].linkedCount = 2

---------------------------------------------------------------------------
\* the commands that are running: called and not yet returned
RunningCommands == { p \in Procs : Running(p) }

\* at most one command runs, and isRunningCommand is set while it does
OneCommandRuns ==
    /\ Cardinality(RunningCommands) <= 1
    /\ Cardinality(ui.awaited) <= 1
    /\ RunningCommands \subseteq ui.awaited
    /\ ui.awaited # {} => ui.isRunningCommand

\* a step of the application taken while a command is running that is
\* neither a move of the cursor, nor quitting, nor the return of the command
RequestWhileRunning ==
    /\ ui.isRunningCommand
    /\ ui' # ui
    /\ ui'.selected = ui.selected
    /\ ui'.quit = ui.quit
    /\ ui'.isRunningCommand

\* a request made while a command is running starts nothing: all it does is
\* log that another command is already running
RequestOnlyLogs ==
    RequestWhileRunning =>
        /\ ui' = [ui EXCEPT !.lastMessage = "busy"]
        /\ UNCHANGED runVars

(* C16: in the interactive terminal UI at most one command is executing at  *)
(* any time: for every sequence of key presses, a request to execute a     *)
(* command while another command has not yet finished starts nothing and   *)
(* only logs that another command is already running.                      *)
C16_OneCommandAtATime == []OneCommandRuns /\ [][RequestOnlyLogs]_vars

\* enter was pressed on a command while a load was waiting for the backend:
\* the message is logged and the load is still the only command
C16_Witness ==
    /\ ui.lastMessage = "busy"
    /\ ui.isRunningCommand
    /\ RunningCommands = {1}
    /\ proc[1].cmd = "load"
    /\ proc[1].inFlight # {}
    /\ Selected(ui).command = "validate"

---------------------------------------------------------------------------
\* the command whose return the application awaits
AwaitedCommand == proc[CHOOSE p \in ui.awaited : TRUE].cmd

\* the step in which a download, load or annotate command that ran to its
\* end returns to the application
CompletesSuccessfully ==
    /\ ui.isRunningCommand
    /\ ~ui'.isRunningCommand
    /\ ~ui'.quit
    /\ AwaitedCommand \in {"download", "load", "annotate"}

\* the statuses are those of the files as they are now
StatusesRefreshed(u) ==
    u.commandStatuses = checkCommandStatuses(u.dataset, cacheFiles, stateFile)

(* C17: in the interactive terminal UI the statuses are refreshed after     *)
(* each command completes, and once download, load or annotate has run to  *)
(* successful completion for a dataset the status of that command is       *)
(* 'has been run'.                                                         *)
C17_StatusShowsCompletedCommand ==
    [][CompletesSuccessfully =>
          /\ StatusesRefreshed(ui')
          /\ getCommandStatus(ui'.commandStatuses, AwaitedCommand)]_vars

---------------------------------------------------------------------------
(* C19 *)

\* the run of process p went through to the end of saveState
Finished(p) == At(p, "exited") /\ proc[p].exitCode = 0 /\ proc[p].cmd = "load"

\* the two load runs overlapped in time and both have finished
BothFinished == \A p \in Procs : Finished(p)

\* the saveState call of the run r
SaveCall(r) == r.trace[Len(r.trace)]

\* the process whose saveState ended last
LastSaver == CHOOSE p \in Procs : lastSaved = Some(FullState(proc[p]))

\* an identifier handed to the run of process q is recorded in the state file
RecordedIdOf(q) ==
    \E n \in 1..Len(stateFile.data) :
        \E piece \in 1..Len(stateFile.data[n].cs) :
            stateFile.data[n].cs[piece] = RaceBase(q)

\* the state file is exactly what the run that ended saveState last wrote,
\* and holds nothing of the other run
LastSaverWins ==
    /\ stateFile = SavedFile(Some(FullState(proc[LastSaver])))
    /\ \A q \in Procs \ {LastSaver} : ~RecordedIdOf(q)

\* one of the two writeFileSync calls began before the other had ended
SavesOverlapped == \E p \in Procs : SaveCall(proc[p]).outcome.during # {}

\* C19 as stated: whenever two load runs for the same dataset overlap in time
\* and both have finished, the state file holds exactly the complete state
\* written by the run that executed saveState last, never a mixture, and no
\* identifier created by the other run is recorded in it
C19_Original == BothFinished => LastSaverWins

\* C19: whenever two load runs for the same dataset overlap in time, both have
\* finished and neither writeFileSync call began before the other had ended,
\* the state file holds exactly the complete state written by the run that
\* executed saveState last, and no identifier created by the other run is
\* recorded in it
C19_LastCompleteWriteWins == (BothFinished /\ ~SavesOverlapped) => LastSaverWins

\* two overlapping runs have finished, their saveState calls one after the
\* other, the first of them with more to record than the last, and the last
\* state alone is in the file
C19_Witness ==
    /\ BothFinished
    /\ ~SavesOverlapped
    /\ LastSaver = 2
    /\ Len(JsonStringify(FullState(proc[1]))) > Len(JsonStringify(FullState(proc[2])))
    /\ proc[1].created > 0
    /\ LastSaverWins

---------------------------------------------------------------------------
(* C21 *)

\* entry n of the trace of r is the createResource call for the table of
\* contents
IsTocCall(r, n) ==
    /\ r.trace[n].op = "createResource"
    /\ r.trace[n].arg.entityTypes = <<"table-of-contents">>

\* what the reference to the uploaded item names: "Part <partNumber>" for a
\* chunk, the title for a document
NameOf(ds, item) ==
    IF ds.isMultiDocument THEN item.title
    ELSE <<"P", "a", "r", "t", " ">> \o NumberToString(item.partNumber)

\* the references refs are one per item of list, in order, each one the range
\* of its text in content, the ranges increasing without overlap
ReferencesMatch(ds, list, content, refs) ==
    /\ Len(refs) = Len(list)
    /\ \A n \in 1..Len(refs) :
          /\ refs[n].text = NameOf(ds, list[n])
          /\ Substring(content, refs[n].start, refs[n].end) = refs[n].text
          /\ 0 <= refs[n].start /\ refs[n].start <= refs[n].end
          /\ n > 1 => /\ refs[n - 1].start < refs[n].start
                      /\ refs[n - 1].end <= refs[n].start

\* C21: the table of contents built by createTableOfContents or
\* createDocumentTableOfContents has exactly one reference per input item, in
\* input order; each reference r satisfies content.substring(r.start, r.end) =
\* r.text, and the ranges of successive references increase strictly and do
\* not overlap
C21_TocReferencesMatchContent ==
    \A p \in Procs :
        (proc[p].cmd = "load" /\ IsSome(proc[p].references)) =>
            \E n \in 1..Len(proc[p].trace) :
                /\ IsTocCall(proc[p], n)
                /\ ReferencesMatch(proc[p].dataset, proc[p].uploaded,
                                   proc[p].trace[n].arg.file, Refs(proc[p]))

\* a load has built a table of contents of two entries
C21_Witness ==
    \E p \in Procs :
        /\ proc[p].cmd = "load"
        /\ IsSome(proc[p].references)
        /\ Len(Refs(proc[p])) = 2
        /\ Len(proc[p].uploaded) = 2
        /\ Refs(proc[p])[1].end < Refs(proc[p])[2].start

---------------------------------------------------------------------------
(* C22 *)

\* the createResource calls of the upload helper, in the order they were made
UploadCalls(r) ==
    SelectSeq(r.trace, LAMBDA e : e.op = "createResource"
                                  /\ e.arg.entityTypes # <<"table-of-contents">>)

\* the reference ref is linked to the resource created from the item it names
LinkedToNamedItem(r, ref) ==
    \E k \in 1..Len(UploadCalls(r)) :
        /\ NameOf(r.dataset, r.chunks[k]) = ref.text
        /\ UploadCalls(r)[k].arg = UploadRequest(UploadHelper(r.dataset), r.chunks[k])
        /\ UploadCalls(r)[k].outcome.kind = "ok"
        /\ UploadCalls(r)[k].outcome.id = ref.documentId

\* no reference names an item whose upload failed
NoReferenceToFailedUpload(r) ==
    \A k \in 1..Len(UploadCalls(r)) :
        UploadCalls(r)[k].outcome.kind = "throw" =>
            \A n \in 1..Len(Refs(r)) : Refs(r)[n].text # NameOf(r.dataset, r.chunks[k])

\* C22: in a load with a table of contents, for any pattern of upload
\* failures, every reference that createStubReferences has given a documentId
\* is linked to the resource that was created from the item the reference
\* names, no reference exists for an item whose upload failed, and when the
\* load has finished every reference has its documentId
C22_ReferencesNameTheirResource ==
    \A p \in Procs :
        (proc[p].cmd = "load" /\ IsSome(proc[p].references)) =>
            /\ NoReferenceToFailedUpload(proc[p])
            /\ \A n \in 1..Len(Refs(proc[p])) :
                  \/ Refs(proc[p])[n].documentId = <<>>
                        /\ ~(At(p, "exited") /\ proc[p].exitCode = 0)
                  \/ LinkedToNamedItem(proc[p], Refs(proc[p])[n])

\* a load has finished in which the first upload failed and the second
\* succeeded, and the one reference is linked
C22_Witness ==
    \E p \in Procs :
        /\ proc[p].cmd = "load" /\ At(p, "exited") /\ proc[p].exitCode = 0
        /\ IsSome(proc[p].references)
        /\ Len(UploadCalls(proc[p])) = 2
        /\ UploadCalls(proc[p])[1].outcome.kind = "throw"
        /\ Len(Refs(proc[p])) = 1
        /\ LinkedToNamedItem(proc[p], Refs(proc[p])[1])

---------------------------------------------------------------------------
(* C23 *)

\* the resources a saved state records: the table of contents, then the chunk
\* ids in order (saveState writes no document ids)
RecordedResources(full) ==
    (IF IsSome(full.tocId) THEN <<Get(full.tocId)>> ELSE <<>>) \o Get(full.chunkIds)

\* the getResourceRepresentation calls of r, in the order they were made
FetchCalls(r) == SelectSeq(r.trace, LAMBDA e : e.op = "getResourceRepresentation")

\* the number of results of the given status
CountStatus(results, status) ==
    Cardinality({ n \in 1..Len(results) : results[n].status = status })

\* the validate run r has read the state: so far it has fetched the recorded
\* resources in order, once each, with one result per settled fetch, an
\* 'error' result for a failed fetch; when it has finished it has fetched them
\* all
ValidatesRecorded(r, recorded) ==
    /\ Len(FetchCalls(r)) <= Len(recorded)
    /\ \A n \in 1..Len(FetchCalls(r)) : FetchCalls(r)[n].arg = recorded[n]
    /\ Len(r.results) = Cardinality({ n \in 1..Len(FetchCalls(r)) :
                                         FetchCalls(r)[n].outcome.kind # "pending" })
    /\ \A n \in 1..Len(r.results) :
          /\ r.results[n].uri = recorded[n]
          /\ r.results[n].status \in {"success", "error"}
          /\ FetchCalls(r)[n].outcome.kind = "throw" => r.results[n].status = "error"
    /\ (r.pc = "exited" /\ r.exitCode = 0) =>
          /\ Len(FetchCalls(r)) = Len(recorded)
          /\ Len(r.results) = Len(recorded)
          /\ CountStatus(r.results, "success") + CountStatus(r.results, "error")
                = Len(recorded)

\* C23: validate fetches every resource recorded in the state, the table of
\* contents first, then each chunk id in order, exactly once each;
\* validateResources returns exactly one result per requested resource in
\* request order, a failed fetch yields an 'error' result and no thrown error,
\* and the numbers of success and error results sum to the number of resources
C23_ValidateFetchesEveryResource ==
    \A p \in Procs :
        (proc[p].cmd = "validate" /\ IsSome(proc[p].state)) =>
            /\ IsSome(lastSaved)
            /\ ValidatesRecorded(proc[p], RecordedResources(Get(lastSaved)))
            /\ proc[p].exitCode # 1

\* a validate has finished with a table of contents and two chunks to fetch,
\* one fetch failed
C23_Witness ==
    \E p \in Procs :
        /\ proc[p].cmd = "validate" /\ At(p, "exited") /\ proc[p].exitCode = 0
        /\ IsSome(lastSaved) /\ IsSome(Get(lastSaved).tocId)
        /\ Len(proc[p].results) = 3
        /\ CountStatus(proc[p].results, "error") = 1
        /\ CountStatus(proc[p].results, "success") = 2

---------------------------------------------------------------------------
(* C24 *)

\* in every iteration of chunkText so far the break chosen lies beyond the
\* start position and not beyond the end of the text
BreakBeyondStart ==
    \A n \in 1..Len(cuts) :
        /\ cuts[n].startPos < cuts[n].bestBreak
        /\ cuts[n].bestBreak <= Len(text)

\* the start position never moves back and moves on with every iteration
StartPosIncreases == ChunkTextStep => startPos < startPos'

\* C24: chunkText terminates for every text and every integer target size,
\* zero and negative ones included: in each iteration the chosen break point
\* is greater than the start position, so the start position increases until
\* it equals the text length; chunkBySize terminates whenever the chunk size
\* is at least 1
C24_ChunkersTerminate ==
    /\ []BreakBeyondStart
    /\ [][StartPosIncreases]_vars
    /\ (pc = "loop" /\ (fn = "chunkText" \/ targetChunkSize >= 1))
          ~> (pc = "done" /\ (fn = "chunkText" => startPos = Len(text)))

\* chunkText has returned after three iterations with a target size of zero
C24_Witness ==
    /\ fn = "chunkText"
    /\ pc = "done"
    /\ targetChunkSize = 0
    /\ Len(cuts) = 3
    /\ startPos = Len(text)

---------------------------------------------------------------------------
(* C25 *)

\* the resources that the references of the saved state full link to the part
\* with the given number (the resource uploaded from that chunk)
ResourcesOfPart(full, part) ==
    IF ~IsSome(full.references) THEN {}
    ELSE { Get(full.references)[n].documentId :
             n \in { m \in 1..Len(Get(full.references)) :
                       Get(full.references)[m].text
                           = <<"P", "a", "r", "t", " ">> \o NumberToString(part) } }

\* the annotate run r has read the state and re-chunked the text
Rechunked(r) ==
    /\ r.cmd = "annotate"
    /\ r.dataset.detectCitations
    /\ IsSome(r.state)
    /\ r.pc \in {"detect", "annotate", "history", "finish"}

\* the chunk in which the match annotated by entry n was detected
ChunkOfAnnotation(r, n) ==
    r.chunks[Cardinality({ d \in Detections(r) : d < n })]

\* the annotation sent as entry n targets the resource uploaded from the chunk
\* in which its citation was detected
TargetsOwnChunk(r, n) ==
    r.trace[n].arg.resource
        \in ResourcesOfPart(Get(lastSaved), ChunkOfAnnotation(r, n).partNumber)

\* the chunks of the annotate run are as many as the chunk ids of the state
SameLength(r) == Len(r.chunks) = Len(Get(r.state)["chunkIds"])

\* C25: for any outcome of the preceding load, loads with failed chunk uploads
\* included, every citation annotation that annotate creates targets the
\* resource that was uploaded from the chunk in which the citation was
\* detected, and the chunks obtained by re-chunking state.formattedText are as
\* many as state.chunkIds
C25_AnnotationsTargetOwnChunk ==
    \A p \in Procs :
        Rechunked(proc[p]) =>
            /\ SameLength(proc[p])
            /\ \A n \in 1..Len(proc[p].trace) :
                  proc[p].trace[n].site = "annotate" => TargetsOwnChunk(proc[p], n)

---------------------------------------------------------------------------
(* C26 *)

\* reference n of r has an annotation id of the expected shape
Linkable(r, n) == ~InvalidAnnotationId(Get(Refs(r)[n].annotationId))

\* the references among the first n that have such an id
LinkableUpTo(r, n) == { m \in 1..n : Linkable(r, m) }

\* linkReferences has returned
LinksDone(r) ==
    /\ r.cmd = "load"
    /\ IsSome(r.references)
    /\ r.pc \in {"history", "save", "write"} \/ (r.pc = "exited" /\ r.exitCode = 0)

\* the body updates that succeeded
LinkedOk(r) ==
    Cardinality({ j \in 1..Len(AtSite(r, "links")) :
                    AtSite(r, "links")[j].outcome.kind = "ok" })

\* C26: linkReferences attempts every reference exactly once, in order,
\* whatever failed before; a reference whose annotation id is malformed gets
\* no request and a reference whose body update throws is passed over, both
\* counted as failures; the count returned is the number of references whose
\* body update succeeded and lies between 0 and references.length
C26_LinkReferencesCountsSuccesses ==
    \A p \in Procs :
        LET r == proc[p]
            links == AtSite(r, "links")
        IN  /\ \A j \in 1..Len(links) :
                  \E n \in 1..Len(Refs(r)) :
                      /\ Linkable(r, n)
                      /\ Cardinality(LinkableUpTo(r, n)) = j
                      /\ links[j].arg = LinkRequest(Get(r.tocId), Refs(r)[n])
            /\ (r.cmd = "load" /\ links # <<>>) => r.linkedCount = LinkedOk(r)
            /\ LinksDone(r) =>
                  /\ Len(links) = Cardinality(LinkableUpTo(r, Len(Refs(r))))
                  /\ r.linkedCount = LinkedOk(r)
                  /\ 0 <= r.linkedCount /\ r.linkedCount <= Len(Refs(r))
                  /\ (r.pc = "history" /\ AtSite(r, "history") = <<>>) =>
                        r.warnings = Len(Refs(r)) - r.linkedCount

\* linkReferences has returned 1 for two references: the update of the first
\* was rejected, the update of the second succeeded
C26_Witness ==
    \E p \in Procs :
        /\ LinksDone(proc[p])
        /\ Len(Refs(proc[p])) = 2
        /\ Len(AtSite(proc[p], "links")) = 2
        /\ AtSite(proc[p], "links")[1].outcome.kind = "throw"
        /\ AtSite(proc[p], "links")[2].outcome.kind = "ok"
        /\ proc[p].linkedCount = 1

---------------------------------------------------------------------------
(* C27 *)

\* a load run that ended in the catch block of loadCommand, or at the check
\* of the cache file
FailedLoad(r) == r.cmd = "load" /\ r.pc = "exited" /\ r.exitCode = 1

\* a failed load run never opened the state file, and the file is still what
\* the last saveState that returned wrote; an annotate or validate run that
\* has read it holds that state
FailedLoadLeftFile ==
    \A p \in Procs :
        /\ FailedLoad(proc[p]) =>
              /\ \A n \in 1..Len(proc[p].trace) : proc[p].trace[n].op # "saveState"
              /\ stateFile = SavedFile(lastSaved)
              /\ lastSaved = None => stateFile = NoFile
        /\ (proc[p].cmd \in {"annotate", "validate"} /\ IsSome(proc[p].state)) =>
              /\ IsSome(lastSaved)
              /\ SameState(Get(proc[p].state), Get(lastSaved))

\* a step of a load run other than the two halves of writeFileSync in
\* saveState, the step into the catch block included, leaves the state file
\* and the record of the last completed save as they are
LoadBeforeSaveKeepsFile ==
    \A p \in Procs :
        (/\ proc'[p] # proc[p]
         /\ proc'[p].cmd = "load"
         /\ FailedLoad(proc'[p]) \/ proc'[p].pc \notin {"write", "exited"})
            => (stateFile' = stateFile /\ lastSaved' = lastSaved)

\* C27: a load run that fails at any point before saveState (missing cache
\* file, authentication failure, an exception in any stage) leaves the state
\* file exactly as it was before the run, so a later annotate or validate
\* still reads the state of the last load that completed
C27_FailedLoadKeepsStateFile == []FailedLoadLeftFile /\ [][LoadBeforeSaveKeepsFile]_vars

\* after a completed load, a second load failed once it had made backend
\* calls, and the state file still holds the first load's state
C27_Witness ==
    /\ FailedLoad(proc[1])
    /\ Len(proc[1].trace) >= 2
    /\ IsSome(lastSaved)
    /\ stateFile = SavedFile(lastSaved)
    /\ stateFile.exists

---------------------------------------------------------------------------
(* C28 *)

\* no executeSelected is under way
NoCommandUnderWay == ui.awaited = {}

\* while no command is under way the flag is false, console.log and
\* console.error are the functions of the runtime, and executeSelected would
\* start the command under the cursor
ConsoleFreeWhenIdle ==
    (ui.launched /\ NoCommandUnderWay) =>
        /\ ~ui.isRunningCommand
        /\ ui.console = RuntimeConsole
        /\ ~IsRunningCommand(ui) /\ \E p \in Procs : ~Running(p)

\* the step in which executeSelected starts the command of process p
CommandStarts(p) == p \notin ui.awaited /\ p \in ui'.awaited

\* the step in which executeSelected leaves its finally block
CommandFinishes(p) == p \in ui.awaited /\ p \notin ui'.awaited

\* a command starts with the console of the runtime and redirects it; when it
\* finishes the flag is false and the console is what it was at the start
FinishRestoresConsole ==
    \A p \in Procs :
        /\ CommandStarts(p) =>
              /\ ui.console = RuntimeConsole
              /\ ui'.originals[p] = ui.console
              /\ ui'.console = ActivityConsole
              /\ ui'.isRunningCommand
        /\ CommandFinishes(p) =>
              /\ ~ui'.isRunningCommand
              /\ ui'.console = ui.originals[p]
              /\ ui'.console = RuntimeConsole

---------------------------------------------------------------------------
(* C29 *)

\* the command the application started in process p has failed: its catch
\* block, or its check of the cache file or of the chunk ids, was reached
FailedCommand(p) == proc[p].pc = "exited" /\ proc[p].exitCode = 1

\* the application has taken note of the failure of the command of process p:
\* the failure is in the activity log and the flag is cleared
FailureHandled(p) ==
    /\ p \notin ui.awaited
    /\ ui.lastMessage = "failed"
    /\ ~ui.isRunningCommand

\* C29: in the interactive terminal UI, when an executed command fails (for
\* example the backend rejects authentication during load) the application
\* keeps running, so that the failure can be logged as a failed command, the
\* running-command flag cleared and another command started
C29_FailedCommandKeepsUiRunning ==
    \A p \in Procs :
        FailedCommand(p) => (UiAlive /\ (p \in ui.awaited \/ FailureHandled(p)))

---------------------------------------------------------------------------
(* C30 *)

\* the chunk emitted by iteration k of chunkText
ChunkOfCut(k) == chunks[Cardinality({ j \in 1..k : cuts[j].emitted })]

\* the chunk of iteration k consists of a single paragraph: no paragraph
\* boundary lies inside the slice it was taken from, and its content holds no
\* run of two or more newlines
SingleParagraph(k) ==
    /\ \A b \in ParagraphBoundaries(text) :
          ~(cuts[k].startPos < b /\ b < cuts[k].bestBreak)
    /\ ~HasNewlineRun(ChunkOfCut(k).content)

\* a and b are boundaries of the set bs with no boundary between them
ConsecutiveBoundaries(bs, a, b) ==
    /\ a < b
    /\ \A c \in bs : ~(a < c /\ c < b)

\* every paragraph, its separator included, fits the target size
ParagraphsFit ==
    LET bs == ParagraphBoundaries(text)
    IN  \A a \in bs, b \in bs :
            ConsecutiveBoundaries(bs, a, b) => b - a <= targetChunkSize

\* C30: for chunkText with a positive target size, a chunk's content is longer
\* than the target size only if the chunk consists of a single paragraph;
\* and if the distance between every two consecutive paragraph boundaries
\* (separator included) is at most the target size, every emitted chunk has a
\* content of at most the target size
C30_LongChunkIsOneParagraph ==
    (fn = "chunkText" /\ targetChunkSize >= 1) =>
        /\ \A k \in 1..Len(cuts) :
              (cuts[k].emitted /\ Len(ChunkOfCut(k).content) > targetChunkSize)
                  => SingleParagraph(k)
        /\ ParagraphsFit =>
              \A k \in 1..Len(chunks) : Len(chunks[k].content) <= targetChunkSize

\* chunkText returned a chunk longer than the positive target size that is a
\* paragraph from the middle of the text
C30_Witness ==
    /\ Returned
    /\ fn = "chunkText"
    /\ targetChunkSize >= 1
    /\ \E k \in 1..Len(cuts) :
          /\ cuts[k].emitted
          /\ Len(ChunkOfCut(k).content) > targetChunkSize
          /\ cuts[k].startPos > 0
          /\ cuts[k].bestBreak < Len(text)
          /\ SingleParagraph(k)

=============================================================================
